---------------------------- MODULE Spec2Model ----------------------------
(***************************************************************************)
(* A model of the in-n-out Store (src/src/in_n_out/_store.py): the two     *)
(* registries of weighted callbacks, the memoized type -> callbacks maps,  *)
(* the registration handles (InjectionContext), lookup, provide, process   *)
(* and the two call-time wrappers built by inject and inject_processors.   *)
(***************************************************************************)
EXTENDS Integers, Sequences, FiniteSets, TLC

(***************************************************************************)
(* Bounds of the model.                                                    *)
(***************************************************************************)
MaxReg == 3
MaxHandles == 2
MaxWeight == 1

Handles == 1..MaxHandles
Weights == 0..MaxWeight

(***************************************************************************)
(* Types, type hints and values.                                           *)
(*                                                                         *)
(* A type is named by a string.  bool is a subclass of int, and every       *)
(* class is a subclass of object, as in Python.                            *)
(* A hint is either a plain type or a Union; Optional[T] is                *)
(* Union[T, NoneType].                                                     *)
(***************************************************************************)
NoneType == "NoneType"

\* inspect.Parameter.empty (also Signature.empty): the class inspect._empty,
\* which stands for a missing annotation and for a missing default
Empty == "<empty>"

Classes == {"object", "int", "str", "bool", NoneType, Empty}

Plain(t) == [union |-> FALSE, args |-> <<t>>]

Optional(t) == [union |-> TRUE, args |-> <<t, NoneType>>]

Union2(a, b) == [union |-> TRUE, args |-> <<a, b>>]

\* Union[a, b, None], which is Optional[Union[a, b]]
OptionalUnion2(a, b) == [union |-> TRUE, args |-> <<a, b, NoneType>>]

\* typing.get_origin(type_) in UNION_TYPES
is_union(hint) == hint.union

\* Faulty variant of issubclass: holds between a class and its ancestor in
\* either direction.
issubclass_either(a, b) ==
    \/ a = b
    \/ a = "object"
    \/ b = "object"
    \/ {a, b} = {"bool", "int"}

\* issubclass(a, b) on the classes of the model
issubclass(a, b) == a = b \/ b = "object" \/ (a = "bool" /\ b = "int")

\* isinstance(origin, type)
isinstance_type(origin) == origin \in Classes

\* issubclassable(obj): issubclass(type, obj) does not raise TypeError
issubclassable(origin) == origin \in Classes

\* _split_union(type_) -> (types, optional)
split_union(hint) ==
    IF is_union(hint)
    THEN [types |-> SelectSeq(hint.args, LAMBDA a : a # NoneType),
          optional |-> \E i \in 1..Len(hint.args) : hint.args[i] = NoneType]
    ELSE [types |-> hint.args, optional |-> FALSE]

\* Python values, named by strings: None, the ints 0 and 1, a str, and the
\* values a caller or a default supplies.
None == "None"

Values == {None, "0", "1", "hi", "arg", "dflt"}

\* type(result)
TypeOf(v) ==
    CASE v = None -> NoneType
      [] v \in {"0", "1", "arg", "dflt"} -> "int"
      [] OTHER -> "str"

(***************************************************************************)
(* Callbacks.  A provider is named by what it returns; a processor by      *)
(* whether it raises (an Exception subclass) when invoked.  mP and mQ are  *)
(* bound methods of one object; a bound method is registered as the        *)
(* forwarding callback that _methodwrap makes for it.                      *)
(***************************************************************************)
VARIABLE collected  \* the owner of the bound methods has been garbage-collected

MethodCallbacks == {"mP", "mQ"}

\* ref() is None in the forwarding callback
Dead(callback) == callback \in MethodCallbacks /\ collected

Ret(provider) ==
    CASE provider = "pNone" -> None
      [] provider = "mP" -> IF collected THEN None ELSE "hi"
      [] provider = "pZero" -> "0"
      [] provider = "pOne" -> "1"
      [] provider = "pStr" -> "hi"
      [] provider \in {"1", "p_int"} -> "1"
      [] OTHER -> None

\* processor(result) raises: qBad raises itself, and the call of Obj(), whose
\* __call__ takes no argument, raises TypeError
Raises(processor) == processor \in {"qBad", "Obj()"}

(***************************************************************************)
(* _RegisteredCallback and _CachedMap.  A dict is a sequence of            *)
(* [key, val] pairs in insertion order.                                    *)
(***************************************************************************)
RegisteredCallback(origin, callback, hint_optional, weight, subclassable) ==
    [origin |-> origin, callback |-> callback, hint_optional |-> hint_optional,
     weight |-> weight, subclassable |-> subclassable]

DictHas(d, k) == \E i \in 1..Len(d) : d[i].key = k

DictGet(d, k) == d[CHOOSE i \in 1..Len(d) : d[i].key = k].val

\* d[k].append(v), creating d[k] = [] first when k is not in d
DictAppend(d, k, v) ==
    IF DictHas(d, k)
    THEN [i \in 1..Len(d) |->
            IF d[i].key = k THEN [key |-> k, val |-> Append(d[i].val, v)] ELSE d[i]]
    ELSE Append(d, [key |-> k, val |-> <<v>>])

\* the memoized attribute is absent until first read
NoCache == [built |-> FALSE, all |-> <<>>, subclassable |-> <<>>]

\* Store._sort_key
sort_key(p) == p.weight

\* Faulty variant of sorted_reverse: a descending sort that reverses the order
\* of equal weights (sort ascending, then reverse the list).
InsertBeforeTies(s, x) ==
    LET n == Cardinality({i \in 1..Len(s) : sort_key(s[i]) > sort_key(x)})
    IN  SubSeq(s, 1, n) \o <<x>> \o SubSeq(s, n + 1, Len(s))

RECURSIVE SortedTiesReversed(_, _, _)
SortedTiesReversed(val, i, acc) ==
    IF i > Len(val) THEN acc
    ELSE SortedTiesReversed(val, i + 1, InsertBeforeTies(acc, val[i]))

sorted_ties_reversed(val) == SortedTiesReversed(val, 1, <<>>)

\* one step of a stable descending sort: x goes after every element whose key
\* is >= its own
InsertDesc(s, x) ==
    LET n == Cardinality({i \in 1..Len(s) : sort_key(s[i]) >= sort_key(x)})
    IN  SubSeq(s, 1, n) \o <<x>> \o SubSeq(s, n + 1, Len(s))

RECURSIVE SortedFrom(_, _, _)
SortedFrom(val, i, acc) ==
    IF i > Len(val) THEN acc ELSE SortedFrom(val, i + 1, InsertDesc(acc, val[i]))

\* sorted(val, key=self._sort_key, reverse=True): descending by weight, and
\* (Python's sort is stable, also with reverse=True) equal weights keep their
\* order in val
sorted_reverse(val) == SortedFrom(val, 1, <<>>)

Callbacks(val) == [i \in 1..Len(val) |-> val[i].callback]

RECURSIVE GroupFrom(_, _, _, _)
GroupFrom(registry, i, onlySub, acc) ==
    IF i > Len(registry) THEN acc
    ELSE LET p == registry[i]
         IN  GroupFrom(registry, i + 1, onlySub,
                       IF onlySub /\ ~p.subclassable THEN acc
                       ELSE DictAppend(acc, p.origin, p))

SortedOut(d) ==
    [i \in 1..Len(d) |-> [key |-> d[i].key, val |-> Callbacks(sorted_reverse(d[i].val))]]

\* Faulty variant of build_map: registrations made under a nullable hint are
\* left out of the maps.
build_map_definite(registry) ==
    LET definite == SelectSeq(registry, LAMBDA p : ~p.hint_optional)
    IN  [built |-> TRUE,
         all |-> SortedOut(GroupFrom(definite, 1, FALSE, <<>>)),
         subclassable |-> SortedOut(GroupFrom(definite, 1, TRUE, <<>>))]

\* Store._build_map
build_map(registry) ==
    [built |-> TRUE,
     all |-> SortedOut(GroupFrom(registry, 1, FALSE, <<>>)),
     subclassable |-> SortedOut(GroupFrom(registry, 1, TRUE, <<>>))]

\* Faulty variant of ScanSubclassable: the last registered ancestor wins.
RECURSIVE ScanSubclassableLast(_, _, _)
ScanSubclassableLast(origin, sub, i) ==
    IF i > Len(sub) THEN [hit |-> FALSE, val |-> <<>>]
    ELSE LET later == ScanSubclassableLast(origin, sub, i + 1)
         IN  IF later.hit THEN later
             ELSE IF issubclass(origin, sub[i].key) THEN [hit |-> TRUE, val |-> sub[i].val]
             ELSE later

\* the scan of _subclassable_types.items() for the first registered ancestor
RECURSIVE ScanSubclassable(_, _, _)
ScanSubclassable(origin, sub, i) ==
    IF i > Len(sub) THEN [hit |-> FALSE, val |-> <<>>]
    ELSE IF issubclass(origin, sub[i].key) THEN [hit |-> TRUE, val |-> sub[i].val]
    ELSE ScanSubclassable(origin, sub, i + 1)

\* Faulty variant of IterOrigins: a hit does not end the lookup; the ancestors
\* of the member and the later members are yielded from too.
RECURSIVE IterOriginsAll(_, _, _)
IterOriginsAll(origins, i, callback_map) ==
    IF i > Len(origins) THEN <<>>
    ELSE LET exact == IF DictHas(callback_map.all, origins[i])
                      THEN DictGet(callback_map.all, origins[i]) ELSE <<>>
             scan == IF isinstance_type(origins[i]) /\ exact = <<>>
                     THEN ScanSubclassable(origins[i], callback_map.subclassable, 1)
                     ELSE [hit |-> FALSE, val |-> <<>>]
         IN  exact \o scan.val \o IterOriginsAll(origins, i + 1, callback_map)

\* the loop of _iter_type_map over the members of the hint: an exact hit, or
\* else the first registered ancestor, ends the lookup
RECURSIVE IterOrigins(_, _, _)
IterOrigins(origins, i, callback_map) ==
    IF i > Len(origins) THEN <<>>
    ELSE IF DictHas(callback_map.all, origins[i])
         THEN DictGet(callback_map.all, origins[i])
    ELSE LET scan == IF isinstance_type(origins[i])
                     THEN ScanSubclassable(origins[i], callback_map.subclassable, 1)
                     ELSE [hit |-> FALSE, val |-> <<>>]
         IN  IF scan.hit THEN scan.val
             ELSE IterOrigins(origins, i + 1, callback_map)

\* Store._iter_type_map: everything the generator yields
iter_type_map(hint, callback_map) ==
    IterOrigins(split_union(hint).types, 1, callback_map)

\* reading a cached_property: build on first read, then reuse
ReadCache(cache, registry) == IF cache.built THEN cache ELSE build_map(registry)


(***************************************************************************)
(* Store.provide and Store.process, on the callbacks a lookup yielded.     *)
(***************************************************************************)
\* Faulty variant of ProvideFrom: tests the truth of the result ("if result:")
\* instead of "is not None", so that 0 is skipped.
RECURSIVE ProvideFromTruthy(_, _, _)
ProvideFromTruthy(provs, i, invoked) ==
    IF i > Len(provs) THEN [result |-> None, invoked |-> invoked]
    ELSE LET result == Ret(provs[i])
         IN  IF result \notin {None, "0"}
             THEN [result |-> result, invoked |-> Append(invoked, provs[i])]
             ELSE ProvideFromTruthy(provs, i + 1, Append(invoked, provs[i]))

\* the loop of Store.provide: call each provider in turn, stop at the first
\* result that is not None
RECURSIVE ProvideFrom(_, _, _)
ProvideFrom(provs, i, invoked) ==
    IF i > Len(provs) THEN [result |-> None, invoked |-> invoked]
    ELSE LET result == Ret(provs[i])
         IN  IF result # None
             THEN [result |-> result, invoked |-> Append(invoked, provs[i])]
             ELSE ProvideFrom(provs, i + 1, Append(invoked, provs[i]))

\* Store.provide(type_hint), reading the provider map cmap
provide(type_hint, cmap) == ProvideFrom(iter_type_map(type_hint, cmap), 1, <<>>)

\* Faulty variant of ProcessFrom: the loop ends at the first processor that
\* raises, also when the exception is only warned about.
RECURSIVE ProcessFromStopsOnError(_, _, _, _, _, _)
ProcessFromStopsOnError(procs, i, first_processor_only, raise_exception, invoked, warned) ==
    IF i > Len(procs) THEN [invoked |-> invoked, warned |-> warned, raised |-> FALSE]
    ELSE LET inv == Append(invoked, procs[i])
         IN  IF Raises(procs[i])
             THEN [invoked |-> inv,
                   warned |-> IF raise_exception THEN warned
                              ELSE Append(warned, procs[i]),
                   raised |-> raise_exception]
             ELSE IF first_processor_only
                  THEN [invoked |-> inv, warned |-> warned, raised |-> FALSE]
                  ELSE ProcessFromStopsOnError(procs, i + 1, first_processor_only,
                                               raise_exception, inv, warned)

\* Faulty variant of ProcessFrom: the first_processor_only break sits inside
\* the try block, so it is skipped when the processor raises.
RECURSIVE ProcessFromBreakInTry(_, _, _, _, _, _)
ProcessFromBreakInTry(procs, i, first_processor_only, raise_exception, invoked, warned) ==
    IF i > Len(procs) THEN [invoked |-> invoked, warned |-> warned, raised |-> FALSE]
    ELSE LET inv == Append(invoked, procs[i])
         IN  IF Raises(procs[i]) /\ raise_exception
             THEN [invoked |-> inv, warned |-> warned, raised |-> TRUE]
             ELSE IF Raises(procs[i])
                  THEN ProcessFromBreakInTry(procs, i + 1, first_processor_only,
                                             raise_exception, inv,
                                             Append(warned, procs[i]))
                  ELSE IF first_processor_only
                       THEN [invoked |-> inv, warned |-> warned, raised |-> FALSE]
                       ELSE ProcessFromBreakInTry(procs, i + 1, first_processor_only,
                                                  raise_exception, inv, warned)

\* the loop of Store.process: invoke each processor; an Exception is re-raised
\* when raise_exception, else warned about; stop after one processor when
\* first_processor_only
RECURSIVE ProcessFrom(_, _, _, _, _, _)
ProcessFrom(procs, i, first_processor_only, raise_exception, invoked, warned) ==
    IF i > Len(procs) THEN [invoked |-> invoked, warned |-> warned, raised |-> FALSE]
    ELSE LET inv == Append(invoked, procs[i])
         IN  IF Raises(procs[i]) /\ raise_exception
             THEN [invoked |-> inv, warned |-> warned, raised |-> TRUE]
             ELSE LET w == IF Raises(procs[i]) THEN Append(warned, procs[i]) ELSE warned
                  IN  IF first_processor_only
                      THEN [invoked |-> inv, warned |-> w, raised |-> FALSE]
                      ELSE ProcessFrom(procs, i + 1, first_processor_only,
                                       raise_exception, inv, w)

\* a type_hint argument that was not given
NoHint == [union |-> FALSE, args |-> <<>>]

\* Store.process(result, type_hint=..., ...), reading the processor map cmap
process(result, type_hint, first_processor_only, raise_exception, cmap) ==
    LET th == IF type_hint = NoHint THEN Plain(TypeOf(result)) ELSE type_hint
    IN  ProcessFrom(iter_type_map(th, cmap), 1, first_processor_only,
                    raise_exception, <<>>, <<>>)

(***************************************************************************)
(* Registration.                                                           *)
(***************************************************************************)
\* a forwarding callback whose method is gone was among the callbacks invoked
ReachedDead(invoked) == \E i \in 1..Len(invoked) : Dead(invoked[i])

\* Faulty variant of methodwrap_reap: only the first entry of a callback is
\* removed (a forward loop that removes while it iterates skips the next one).
methodwrap_reap_first(reg, invoked) ==
    LET gone(k) == /\ Dead(reg[k].callback)
                   /\ \E i \in 1..Len(invoked) : invoked[i] = reg[k].callback
                   /\ \A j \in 1..(k - 1) : reg[j].callback # reg[k].callback
        keep == {k \in 1..Len(reg) : ~gone(k)}
        nth(n) == CHOOSE k \in keep : Cardinality({j \in keep : j < k}) = n - 1
    IN  [n \in 1..Cardinality(keep) |-> reg[nth(n)]]

\* what the forwarding callbacks among those invoked do to the registry when
\* their method is gone: every entry of such a callback is removed
methodwrap_reap(reg, invoked) ==
    SelectSeq(reg, LAMBDA e : ~(/\ Dead(e.callback)
                                /\ \E i \in 1..Len(invoked) : invoked[i] = e.callback))

\* one (callback, type_hint, weight) tuple of a register() argument
Tup(callback, type_hint, weight) ==
    [callback |-> callback, type_hint |-> type_hint, weight |-> weight]

\* an argument of register(): None, or an iterable of tuples
NotGiven == [given |-> FALSE, items |-> <<>>]

Given(items) == [given |-> TRUE, items |-> items]

\* typing.get_type_hints(obj): the exception it raises ("" for none), the
\* hint under "return" and the first hint that is not under "return"
\* (NoHint when there is none)
Hints(raised, returns, first) == [raised |-> raised, returns |-> returns, first |-> first]

\* what registration reads of a callback: callable(obj), whether it has a
\* code object, co_argcount and CO_VARARGS of that code object, and its hints
Callback(callable, code, co_argcount, varargs, hints) ==
    [callable |-> callable, code |-> code, co_argcount |-> co_argcount,
     varargs |-> varargs, hints |-> hints]

\* the callbacks that are registered
CallbackDef(obj) ==
    CASE \* the int 1
         obj = "1" ->
            Callback(FALSE, FALSE, 0, FALSE, Hints("TypeError", NoHint, NoHint))
      \* def noargs(): ...
      [] obj = "noargs" ->
            Callback(TRUE, TRUE, 0, FALSE, Hints("", NoHint, NoHint))
      \* class Obj: def __call__(self): ...   -- Obj() has no __code__
      [] obj = "Obj()" ->
            Callback(TRUE, FALSE, 0, FALSE, Hints("TypeError", NoHint, NoHint))
      \* def p_int() -> int: return 1
      [] obj = "p_int" ->
            Callback(TRUE, TRUE, 0, FALSE, Hints("", Plain("int"), NoHint))
      \* def p_unk() -> "Unknown": ...
      [] obj = "p_unk" ->
            Callback(TRUE, TRUE, 0, FALSE, Hints("NameError", NoHint, NoHint))
      \* def q_int(x: int): ...
      [] obj = "q_int" ->
            Callback(TRUE, TRUE, 1, FALSE, Hints("", NoHint, Plain("int")))
      \* def q_unk(x: "Unknown"): ...
      [] obj = "q_unk" ->
            Callback(TRUE, TRUE, 1, FALSE, Hints("NameError", NoHint, NoHint))
      \* def q_args(*args): ...
      [] obj = "q_args" ->
            Callback(TRUE, TRUE, 0, TRUE, Hints("", NoHint, NoHint))
      \* the bound methods obj.mP (self) and obj.mQ (self, result)
      [] obj = "mP" -> Callback(TRUE, TRUE, 1, FALSE, Hints("", NoHint, NoHint))
      [] obj = "mQ" -> Callback(TRUE, TRUE, 2, FALSE, Hints("", NoHint, NoHint))
      \* lambda result: ...
      [] obj \in {"qA", "qB", "qBad", "qU", "qReg", "qClean"} ->
            Callback(TRUE, TRUE, 1, FALSE, Hints("", NoHint, NoHint))
      \* lambda: <value>
      [] OTHER -> Callback(TRUE, TRUE, 0, FALSE, Hints("", NoHint, NoHint))

\* hash(origin) does not raise TypeError: set() stands for the hints that
\* cannot be hashed
hashable(origin) == origin # "set()"

\* Faulty variant of validate_processor: the number of arguments is not
\* looked at.
validate_processor_callable_only(obj) ==
    IF ~CallbackDef(obj).callable THEN "ValueError" ELSE ""

\* _validate_processor(obj): the exception it raises ("" for none)
validate_processor(obj) ==
    IF ~CallbackDef(obj).callable
    THEN "ValueError"
    ELSE IF ~CallbackDef(obj).code
    THEN ""
    ELSE IF CallbackDef(obj).co_argcount < 1 /\ ~CallbackDef(obj).varargs
    THEN "ValueError"
    ELSE ""

\* _type_from_hints(hints) of _register_callbacks
type_from_hints(hints, is_provider) == IF is_provider THEN hints.returns ELSE hints.first

\* type_ of one tuple once the hint that was not given has been inferred
\* (NoHint when there is none to infer)
type_(tup, is_provider) ==
    IF tup.type_hint # NoHint
    THEN tup.type_hint
    ELSE type_from_hints(CallbackDef(tup.callback).hints, is_provider)

\* the exception that the body of the loop of _register_callbacks raises for
\* one tuple ("" for none)
tuple_error(tup, is_provider) ==
    IF tup.type_hint = NoHint /\ CallbackDef(tup.callback).hints.raised # ""
    THEN CallbackDef(tup.callback).hints.raised
    ELSE IF type_(tup, is_provider) = NoHint
    THEN "ValueError"
    ELSE IF ~is_provider /\ validate_processor(tup.callback) # ""
    THEN validate_processor(tup.callback)
    ELSE IF \E k \in 1..Len(split_union(type_(tup, is_provider)).types) :
                LET origin == split_union(type_(tup, is_provider)).types[k]
                IN  ~issubclassable(origin) /\ ~hashable(origin)
    THEN "TypeError"
    ELSE ""

\* the exception that the loop of _register_callbacks raises: that of the
\* first tuple that raises one ("" for none)
RECURSIVE loop_error(_, _, _)
loop_error(items, i, is_provider) ==
    IF i > Len(items)
    THEN ""
    ELSE IF tuple_error(items[i], is_provider) # ""
    THEN tuple_error(items[i], is_provider)
    ELSE loop_error(items, i + 1, is_provider)

\* the exception that _register_callbacks(callbacks, is_provider) raises
register_error(arg, is_provider) ==
    IF arg.given THEN loop_error(arg.items, 1, is_provider) ELSE ""

\* an argument of register() with every hint that was not given inferred
Hinted(arg, is_provider) ==
    [arg EXCEPT !.items = [i \in 1..Len(arg.items) |->
                              [arg.items[i] EXCEPT
                                  !.type_hint = type_(arg.items[i], is_provider)]]]

\* Faulty variant of EntriesOf: only the first member of a union is registered.
EntriesOfFirst(tup) ==
    LET su == split_union(tup.type_hint)
    IN  [i \in 1..(IF su.types = <<>> THEN 0 ELSE 1) |->
            RegisteredCallback(su.types[i], tup.callback, su.optional, tup.weight,
                               issubclassable(su.types[i]))]

\* the entries one tuple adds: one per member of its hint
EntriesOf(tup) ==
    LET su == split_union(tup.type_hint)
    IN  [i \in 1..Len(su.types) |->
            RegisteredCallback(su.types[i], tup.callback, su.optional, tup.weight,
                               issubclassable(su.types[i]))]

\* the to_register list that Store._register_callbacks builds
RECURSIVE ToRegister(_, _)
ToRegister(items, i) ==
    IF i > Len(items) THEN <<>> ELSE EntriesOf(items[i]) \o ToRegister(items, i + 1)

\* Faulty variant of Remove: drops every element equal to p.
RemoveAll(reg, p) == SelectSeq(reg, LAMBDA x : x # p)

\* list.remove(p): drop the first element equal to p; ValueError is suppressed
Remove(reg, p) ==
    IF \E i \in 1..Len(reg) : reg[i] = p
    THEN LET k == CHOOSE i \in 1..Len(reg) :
                     reg[i] = p /\ \A j \in 1..(i - 1) : reg[j] # p
         IN  SubSeq(reg, 1, k - 1) \o SubSeq(reg, k + 1, Len(reg))
    ELSE reg

\* the loop of _dispose over to_register
RECURSIVE dispose(_, _, _)
dispose(reg, to_register, i) ==
    IF i > Len(to_register) THEN reg
    ELSE dispose(Remove(reg, to_register[i]), to_register, i + 1)

\* the registry left when every disposer of one role has run
RECURSIVE RunDisposers(_, _, _, _)
RunDisposers(reg, ds, i, is_provider) ==
    IF i > Len(ds) THEN reg
    ELSE RunDisposers(IF ds[i].is_provider = is_provider
                      THEN dispose(reg, ds[i].to_register, 1) ELSE reg,
                      ds, i + 1, is_provider)

\* Faulty variant of HasDisposer: a disposer leaves the memoized map alone.
HasDisposer_keeps_cache(ds, is_provider) == FALSE

\* a disposer of this role runs, and deletes the memoized map of the role
HasDisposer(ds, is_provider) == \E i \in 1..Len(ds) : ds[i].is_provider = is_provider

(***************************************************************************)
(* Signatures of the functions that inject decorates.  Each parameter has  *)
(* a name, a resolved annotation and a default (Empty when required).      *)
(***************************************************************************)
Absent == "<absent>"

Param(name, annotation, default) ==
    [name |-> name, annotation |-> annotation, default |-> default]

\* def f(i: int, s: str)   and   def g(x: int, y: int = dflt)
Parameters(fn) ==
    IF fn = "f"
    THEN <<Param("i", Plain("int"), Empty), Param("s", Plain("str"), Empty)>>
    ELSE <<Param("x", Plain("int"), Empty), Param("y", Plain("int"), "dflt")>>

\* sig.bind_partial(*args, **kwargs): the first npos parameters are given
\* positionally and those of kw by keyword, all with the value v
bind_partial(params, npos, kw, v) ==
    [i \in 1..Len(params) |-> IF i <= npos \/ i \in kw THEN v ELSE Absent]

\* bind_partial raises TypeError: a parameter given twice
BindFails(npos, kw) == \E k \in kw : k <= npos

\* Faulty variant of apply_defaults: the defaults are not applied before the
\* provider loop.
apply_defaults_skipped(params, arguments) == arguments

\* bound.apply_defaults()
apply_defaults(params, arguments) ==
    [i \in 1..Len(params) |->
        IF arguments[i] = Absent /\ params[i].default # Empty
        THEN params[i].default ELSE arguments[i]]

\* Faulty variant of Lookups: a provider is looked up for every parameter,
\* supplied or not.
LookupsAll(params, arguments, cmap) ==
    [i \in 1..Len(params) |->
        [called |-> TRUE,
         invoked |-> provide(params[i].annotation, cmap).invoked,
         provided |-> provide(params[i].annotation, cmap).result]]

\* the provider loop of Store.inject._exec: what self.provide() did for each
\* parameter that is not in bound.arguments
Lookups(params, arguments, cmap) ==
    [i \in 1..Len(params) |->
        IF arguments[i] = Absent
        THEN [called |-> TRUE,
              invoked |-> provide(params[i].annotation, cmap).invoked,
              provided |-> provide(params[i].annotation, cmap).result]
        ELSE [called |-> FALSE, invoked |-> <<>>, provided |-> None]]

\* bound.arguments after the provider loop
Injected(arguments, lookups) ==
    [i \in 1..Len(arguments) |->
        IF lookups[i].called /\ lookups[i].provided # None
        THEN lookups[i].provided ELSE arguments[i]]

\* Faulty variant of injected_names: every parameter that was looked up is
\* named, whether a provider gave a value or not.
injected_names_looked_up(params, lookups) ==
    {params[i].name : i \in {k \in 1..Len(params) : lookups[k].called}}

\* _injected_names after the provider loop: the parameters that were given a
\* value by a provider
injected_names(params, lookups) ==
    {params[i].name : i \in {k \in 1..Len(params) :
                                lookups[k].called /\ lookups[k].provided # None}}

\* the TypeError that _exec raises in place of the "missing ... required
\* positional argument" TypeError of the call: its message starts with
\* "After injecting dependencies for arguments: {names}", or "... for NO
\* arguments" when names is empty
missing_error(params, lookups) ==
    [type |-> "TypeError", after_injecting |-> TRUE,
     names |-> injected_names(params, lookups)]

\* the TypeError of sig.bind_partial, which _exec does not catch
bind_error == [type |-> "TypeError", after_injecting |-> FALSE, names |-> {}]

(***************************************************************************)
(* Functions, and the function objects that decorating them makes.         *)
(***************************************************************************)
\* string annotations that name nothing the resolver can find
ForwardRefs == {"Unknown"}

\* isinstance(param.annotation, (str, ForwardRef)) after resolution
is_forward_ref(annotation) ==
    ~annotation.union /\ annotation.args # <<>> /\ annotation.args[1] \in ForwardRefs

\* the annotation "-> None", which __annotations__ holds as None itself
AnnotatedNone == Plain(None)

\* a def: its parameters, its return annotation (Plain(Empty) when it has
\* none), whether it is a generator function, the class it is a method of
\* ("" when it is a plain function), and the value it returns or yields when
\* it has no parameter (otherwise it returns or yields its first argument)
Def(params, returns, generator, class, value) ==
    [params |-> params, returns |-> returns, generator |-> generator,
     class |-> class, value |-> value]

\* the functions that get decorated
FunctionDef(fn) ==
    CASE fn = "f" -> Def(Parameters("f"), Plain(Empty), FALSE, "", None)
      [] fn = "g" -> Def(Parameters("g"), Plain(Empty), FALSE, "", None)
      \* def u(i: int, x: "Unknown")
      [] fn = "u" -> Def(<<Param("i", Plain("int"), Empty),
                           Param("x", Plain("Unknown"), Empty)>>,
                         Plain(Empty), FALSE, "", None)
      \* def n(i: int, x)
      [] fn = "n" -> Def(<<Param("i", Plain("int"), Empty),
                           Param("x", Plain(Empty), Empty)>>,
                         Plain(Empty), FALSE, "", None)
      \* class Foo: def method(self)
      [] fn = "method" -> Def(<<Param("self", Plain(Empty), Empty)>>,
                              Plain(Empty), FALSE, "Foo", None)
      \* def g0(): yield 1; yield 1
      [] fn = "g0" -> Def(<<>>, Plain(Empty), TRUE, "", "1")
      \* def g1(i: int): yield i; yield i
      [] fn = "g1" -> Def(<<Param("i", Plain("int"), Empty)>>, Plain(Empty), TRUE, "", None)
      \* def g2(x): yield x; yield x
      [] fn = "g2" -> Def(<<Param("x", Plain(Empty), Empty)>>, Plain(Empty), TRUE, "", None)
      \* def a(x: int) -> int: return x
      [] fn = "a" -> Def(<<Param("x", Plain("int"), Empty)>>, Plain("int"), FALSE, "", None)
      \* def b(x: int): return x
      [] fn = "b" -> Def(<<Param("x", Plain("int"), Empty)>>, Plain(Empty), FALSE, "", None)
      \* def c(): return 1
      [] fn = "c" -> Def(<<>>, Plain(Empty), FALSE, "", "1")
      \* def d() -> int: return 1
      [] fn = "d" -> Def(<<>>, Plain("int"), FALSE, "", "1")
      \* def r_str() -> str: return "hi"
      [] fn = "r_str" -> Def(<<>>, Plain("str"), FALSE, "", "hi")
      \* def r_none() -> None: return 1
      [] fn = "r_none" -> Def(<<>>, AnnotatedNone, FALSE, "", "1")
      \* def r(): return "hi"
      [] OTHER -> Def(<<>>, Plain(Empty), FALSE, "", "hi")

\* inspect.Signature
Signature(parameters, return_annotation) ==
    [parameters |-> parameters, return_annotation |-> return_annotation]

NoSignature == Signature(<<>>, Plain(Empty))

\* One wrapper around a function: the _exec (or _gexec) closure of inject,
\* with its sig, or the _exec closure of inject_processors, with its
\* type_hint cell.  A cell that belongs to one decoration alone holds hint
\* from then on; cell = c > 0 is the cell of the decorator object number c,
\* which every function decorated by that object shares.  given is the
\* type_hint argument that inject_processors was called with.
\* Faulty variant of InjectLayer: _exec is returned for a generator function
\* too.
InjectLayerNeverGexec(sig, generator) ==
    [kind |-> "inject", sig |-> sig, generator |-> FALSE, given |-> NoHint,
     hint |-> NoHint, cell |-> 0, first_processor_only |-> FALSE,
     raise_exception |-> FALSE]

InjectLayer(sig, generator) ==
    [kind |-> "inject", sig |-> sig, generator |-> generator, given |-> NoHint,
     hint |-> NoHint, cell |-> 0, first_processor_only |-> FALSE,
     raise_exception |-> FALSE]

ProcessorsLayer(given, hint, cell, first_processor_only, raise_exception) ==
    [kind |-> "processors", sig |-> NoSignature, generator |-> FALSE, given |-> given,
     hint |-> hint, cell |-> cell, first_processor_only |-> first_processor_only,
     raise_exception |-> raise_exception]

\* a function object: a def under its wrappers, the innermost first
Function(fn, layers) == [fn |-> fn, layers |-> layers]

NoFunction == Function("", <<>>)

\* the function that func.__wrapped__ is
Wrapped(func) == Function(func.fn, SubSeq(func.layers, 1, Len(func.layers) - 1))

Outermost(func) == func.layers[Len(func.layers)]

\* inspect.isgeneratorfunction(func): of a wrapper, true of _gexec alone
isgeneratorfunction(func) ==
    IF func.layers = <<>> THEN FunctionDef(func.fn).generator
    ELSE Outermost(func).kind = "inject" /\ Outermost(func).generator

\* unwrap(func).__code__.co_argcount
co_argcount(func) == Len(FunctionDef(func.fn).params)

RECURSIVE annotations_return(_)
\* func.__annotations__.get("return", Empty): inject sets the annotations of
\* its wrapper from sig, and functools.wraps hands those of the wrapped
\* function to the wrapper of inject_processors
annotations_return(func) ==
    IF func.layers = <<>>
    THEN FunctionDef(func.fn).returns
    ELSE IF Outermost(func).kind = "inject"
         THEN Outermost(func).sig.return_annotation
         ELSE annotations_return(Wrapped(func))

\* "return" in func.__annotations__
has_return_annotation(func) ==
    \/ \E k \in 1..Len(func.layers) : func.layers[k].kind = "inject"
    \/ FunctionDef(func.fn).returns # Plain(Empty)

\* typing.get_type_hints on an annotation: None becomes NoneType
resolved(annotation) == IF annotation = AnnotatedNone THEN Plain(NoneType) ELSE annotation

\* type_resolved_signature(func, guess_self=...), with both raise_unresolved_*
\* arguments false: an annotation that cannot be resolved stays as it is
\* written, and with guess_self the unannotated self of a method gets the
\* method's class
type_resolved_signature(func, guess_self) ==
    LET d == FunctionDef(func.fn)
        guessed(i) == /\ i = 1
                      /\ guess_self
                      /\ d.class # ""
                      /\ d.params[1].name = "self"
                      /\ d.params[1].annotation = Plain(Empty)
    IN  Signature([i \in 1..Len(d.params) |->
                      IF guessed(i)
                      THEN [d.params[i] EXCEPT !.annotation = Plain(d.class)]
                      ELSE d.params[i]],
                  resolved(annotations_return(func)))

\* the four policies
RaiseWarnReturnIgnore == {"raise", "warn", "return", "ignore"}

RECURSIVE InformFrom(_, _, _, _, _)
\* the loop of _resolve_sig_or_inform over the parameters from the i-th on:
\* the exception raised ("" for none), the warnings emitted so far, and
\* whether None is returned
InformFrom(params, i, on_unresolved, on_unannotated, warnings) ==
    IF i > Len(params)
    THEN [raised |-> "", warnings |-> warnings, none |-> FALSE]
    ELSE IF params[i].default # Empty
    THEN InformFrom(params, i + 1, on_unresolved, on_unannotated, warnings)
    ELSE IF is_forward_ref(params[i].annotation)
    THEN CASE on_unresolved = "raise" ->
                 [raised |-> "NameError", warnings |-> warnings, none |-> FALSE]
           [] on_unresolved = "warn" ->
                 InformFrom(params, i + 1, on_unresolved, on_unannotated,
                            Append(warnings, params[i].name))
           [] on_unresolved = "return" ->
                 [raised |-> "", warnings |-> warnings, none |-> TRUE]
           [] OTHER ->
                 InformFrom(params, i + 1, on_unresolved, on_unannotated, warnings)
    ELSE IF params[i].annotation = Plain(Empty)
    THEN CASE on_unannotated = "raise" ->
                 [raised |-> "TypeError", warnings |-> warnings, none |-> FALSE]
           [] on_unannotated = "warn" ->
                 InformFrom(params, i + 1, on_unresolved, on_unannotated,
                            Append(warnings, params[i].name))
           [] on_unannotated = "return" ->
                 [raised |-> "", warnings |-> warnings, none |-> TRUE]
           [] OTHER ->
                 InformFrom(params, i + 1, on_unresolved, on_unannotated, warnings)
    ELSE InformFrom(params, i + 1, on_unresolved, on_unannotated, warnings)

\* what _resolve_sig_or_inform gives back when its loop ends as r does:
\* None, or sig
Informed(r, sig) ==
    [raised |-> r.raised, warnings |-> r.warnings, none |-> r.none, sig |-> sig]

\* the loop of _resolve_sig_or_inform over all the parameters of sig
Inform(sig, on_unresolved, on_unannotated) ==
    Informed(InformFrom(sig.parameters, 1, on_unresolved, on_unannotated, <<>>), sig)

\* Faulty variant of resolve_sig_or_inform: "ignore" gives up as "return"
\* does.
resolve_sig_or_inform_ignore_returns(func, on_unresolved, on_unannotated, guess_self) ==
    Inform(type_resolved_signature(func, guess_self),
           IF on_unresolved = "ignore" THEN "return" ELSE on_unresolved,
           IF on_unannotated = "ignore" THEN "return" ELSE on_unannotated)

\* _resolve_sig_or_inform(func, localns, on_unresolved_required_args,
\* on_unannotated_required_args, guess_self)
resolve_sig_or_inform(func, on_unresolved, on_unannotated, guess_self) ==
    Inform(type_resolved_signature(func, guess_self), on_unresolved, on_unannotated)

\* Python's True and False where an argument may also be None
PyTrue == "True"

PyFalse == "False"

\* a or b
py_or(a, b) == IF a \in {None, PyFalse} THEN b ELSE a

\* what a decoration gives back: the exception it raised ("" for none), the
\* warnings it emitted and the function it returned
Decorated(raised, warnings, out) == [raised |-> raised, warnings |-> warnings, out |-> out]

\* Store.inject_processors._deco(func) up to the closure: the value of the
\* type_hint cell when _deco is entered is type_hint, its value when _deco is
\* left is hint; a return annotation of None leaves the cell None
processors_deco(func, type_hint) ==
    IF isgeneratorfunction(func)
    THEN [raised |-> "TypeError", hint |-> type_hint]
    ELSE [raised |-> "",
          hint |-> IF type_hint = NoHint /\ has_return_annotation(func)
                      /\ annotations_return(func) # AnnotatedNone
                   THEN annotations_return(func)
                   ELSE type_hint]

\* store.inject_processors(func, type_hint=..., first_processor_only=...,
\* raise_exception=...)
inject_processors(func, type_hint, first_processor_only, raise_exception) ==
    IF processors_deco(func, type_hint).raised # ""
    THEN Decorated(processors_deco(func, type_hint).raised, <<>>, NoFunction)
    ELSE Decorated("", <<>>,
                   Function(func.fn,
                            Append(func.layers,
                                   ProcessorsLayer(type_hint,
                                                   processors_deco(func, type_hint).hint,
                                                   0, first_processor_only,
                                                   raise_exception))))

\* the end of Store.inject._inner: out is the wrapper _exec or _gexec, which
\* goes through inject_processors when processors are asked for
inject_out(out, processors_on, return_annotation, warnings) ==
    IF processors_on
    THEN [inject_processors(out, return_annotation, FALSE, FALSE)
             EXCEPT !.warnings = warnings]
    ELSE Decorated("", warnings, out)

\* Store.inject._inner from the call of _resolve_sig_or_inform on, r being
\* what that call gives
inject_resolved(func, processors_on, r) ==
    IF r.raised # ""
    THEN Decorated(r.raised, r.warnings, NoFunction)
    ELSE IF r.none
    THEN Decorated("", r.warnings, func)
    ELSE inject_out(Function(func.fn,
                             Append(func.layers,
                                    InjectLayer(r.sig, isgeneratorfunction(func)))),
                    processors_on, r.sig.return_annotation, r.warnings)

\* Store.inject._inner(func), the three policy arguments being those that
\* inject worked out
inject_inner(func, providers_on, processors_on, on_unres, on_unann, guess_self) ==
    IF ~providers_on
    THEN IF processors_on
         THEN inject_processors(func, NoHint, FALSE, FALSE)
         ELSE Decorated("", <<>>, func)
    ELSE IF co_argcount(func) = 0 /\ ~has_return_annotation(func)
    THEN Decorated("", <<>>, func)
    ELSE inject_resolved(func, processors_on,
                         resolve_sig_or_inform(func, on_unres, on_unann, guess_self))

\* store.inject(func, providers=..., processors=..., on_unresolved_required_args=...,
\* on_unannotated_required_args=..., guess_self=...): an argument that is
\* not given is None, and store holds the three attributes of the store
inject(func, providers_on, processors_on, on_unresolved_required_args, on_unannotated_required_args, guess_self, store) ==
    inject_inner(func, providers_on, processors_on,
                 py_or(on_unresolved_required_args, store.on_unresolved_required_args),
                 py_or(on_unannotated_required_args, store.on_unannotated_required_args),
                 py_or(guess_self, store.guess_self) = PyTrue)

(***************************************************************************)
(* The state.                                                              *)
(***************************************************************************)
VARIABLES
    providers,   \* Store._providers
    processors,  \* Store._processors
    provMap,     \* Store._cached_provider_map
    procMap,     \* Store._cached_processor_map
    disposers,   \* InjectionContext._disposers of each handle
    hist,        \* history of the handles, for stating the properties
    last,        \* the last operation, its inputs and what it did
    instances,   \* Store._instances: name -> instance
    heap,        \* the fields of the instances made by Store.create
    defaults,    \* on_unresolved_required_args, on_unannotated_required_args
                 \* and guess_self of GLOBAL_STORE
    held,        \* the function object that the last decoration returned
    decorators,  \* the decorator objects that inject_processors(func=None)
                 \* returned: the type_hint each was given, and its type_hint
                 \* cell now
    generator,   \* the generator object made by calling held
    threads      \* the calls that other threads have begun and not finished:
                 \* a lookup that has built its map and not stored it, a
                 \* registration that has extended its list and not yet
                 \* deleted the memoized map

\* providers, processors, provMap and procMap are the fields of GLOBAL_STORE,
\* the instance made when the module is loaded; the instances that
\* Store.create makes are numbered from 1, and heap[s] holds the fields of
\* instance s.
GLOBAL_STORE == 0

\* what the decorators of the store made or read
wrappers == <<defaults, held, decorators, generator, threads>>

vars ==
    <<providers, processors, provMap, procMap, disposers, hist, last,
      instances, heap, collected, wrappers>>

\* A store name is the sequence of its characters.  _GLOBAL = "global"
GLOBAL == <<"g", "l", "o", "b", "a", "l">>

\* str.lower(), on the letters of the names used
lower_char(c) ==
    CASE c = "G" -> "g"
      [] c = "L" -> "l"
      [] c = "O" -> "o"
      [] c = "B" -> "b"
      [] c = "A" -> "a"
      [] OTHER -> c

\* Faulty variant of lower: the name is used as it is spelled.
lower_not_applied(name) == name

lower(name) == [i \in 1..Len(name) |-> lower_char(name[i])]

\* name or _GLOBAL, for get_store(name=None): None and "" are both false
name_or_global(named, name) == IF ~named \/ name = <<>> THEN GLOBAL ELSE name

\* Store.__init__
EmptyStore ==
    [providers |-> <<>>, processors |-> <<>>, provMap |-> NoCache, procMap |-> NoCache]

\* Store.__init__: the two policies and guess_self
StoreDefaults ==
    [on_unresolved_required_args |-> "warn",
     on_unannotated_required_args |-> "warn",
     guess_self |-> PyTrue]

\* no generator object.  A generator object is "created" until it is first
\* advanced, then "started", and "done" once it is exhausted or has raised;
\* registered is what Store._providers held when it was created, and
\* consulted counts the runs of the provider loop on its behalf.
NoGenerator ==
    [status |-> "none", func |-> NoFunction, arguments |-> <<>>, bound |-> <<>>,
     yielded |-> <<>>, consulted |-> 0, registered |-> <<>>]

\* no call is in progress on another thread.  A lookup in progress has found
\* the memoized map absent and built a map from the list, and has not stored
\* it yet; a registration in progress has extended the list and has not yet
\* deleted the memoized map.
NoThreads ==
    [lookup |-> [pc |-> "idle", is_provider |-> TRUE, hint |-> NoHint,
                 map |-> NoCache],
     registration |-> [pc |-> "idle", is_provider |-> TRUE]]

\* the arguments of a decoration: those of inject, and type_hint of
\* inject_processors
Options(providers_on, processors_on, on_unres, on_unann, guess_self, type_hint) ==
    [providers |-> providers_on, processors |-> processors_on,
     on_unresolved_required_args |-> on_unres,
     on_unannotated_required_args |-> on_unann,
     guess_self |-> guess_self, type_hint |-> type_hint]

NotDecorating == Options(FALSE, FALSE, None, None, None, NoHint)

\* no exception
\* no store argument is passed to a module-level function
NoStore == [kind |-> "None", name |-> <<>>, store |-> GLOBAL_STORE]

NoError == [type |-> "", after_injecting |-> FALSE, names |-> {}]

NoLast ==
    [op |-> "init", h |-> 0, live |-> FALSE, nested |-> FALSE,
     hint |-> NoHint, arg |-> None, first_processor_only |-> FALSE,
     raise_exception |-> FALSE,
     yielded |-> <<>>, invoked |-> <<>>, warned |-> <<>>, raised |-> FALSE,
     result |-> None, nprocess |-> 0,
     fn |-> "", supplied |-> <<>>, lookups |-> <<>>, bound |-> <<>>,
     ran |-> FALSE,
     store |-> GLOBAL_STORE, named |-> FALSE, name |-> <<>>, cached |-> FALSE,
     error |-> NoError,
     func |-> NoFunction, given |-> NotDecorating, out |-> NoFunction,
     warnings |-> <<>>, provided |-> <<>>, processed |-> <<>>,
     providers |-> NotGiven, processors |-> NotGiven,
     via |-> "", keywords |-> {}, selector |-> NoStore,
     kwargs |-> <<>>, injected |-> [raised |-> "", arguments |-> <<>>],
     sig |-> NoSignature, raise_optional |-> FALSE, raise_required |-> FALSE,
     resolved |-> NoSignature]

NoHist ==
    [scopes |-> <<>>,
     before |-> [h \in Handles |-> [prov |-> 0, proc |-> 0]],
     scoped |-> [h \in Handles |-> FALSE],
     onlyRegs |-> TRUE]

\* the module has been loaded: the registry holds the global store alone, it
\* is empty, and there is no handle yet
Init ==
    /\ providers = EmptyStore.providers
    /\ processors = EmptyStore.processors
    /\ provMap = EmptyStore.provMap
    /\ procMap = EmptyStore.procMap
    /\ disposers = [h \in Handles |-> <<>>]
    /\ hist = NoHist
    /\ last = NoLast
    /\ instances = [k \in {GLOBAL} |-> GLOBAL_STORE]
    /\ heap = <<>>
    /\ collected = FALSE
    /\ defaults = StoreDefaults
    /\ held = NoFunction
    /\ decorators = <<>>
    /\ generator = NoGenerator
    /\ threads = NoThreads

(***************************************************************************)
(* Registration handles.                                                   *)
(***************************************************************************)
\* the disposer that InjectionContext.__init__ keeps for one argument
DisposersFor(arg, is_provider) ==
    IF arg.given
    THEN << [is_provider |-> is_provider,
             to_register |-> ToRegister(arg.items, 1)] >>
    ELSE <<>>

\* Faulty variant of register_callbacks: the memoized map is kept.
register_callbacks_stale(reg, cache, arg) ==
    [reg |-> reg \o (IF arg.given THEN ToRegister(arg.items, 1) ELSE <<>>),
     cache |-> cache]

\* what Store._register_callbacks does to its registry and to its cache
register_callbacks(reg, cache, arg) ==
    LET to_register == IF arg.given THEN ToRegister(arg.items, 1) ELSE <<>>
    IN  [reg |-> reg \o to_register,
         cache |-> IF to_register # <<>> THEN NoCache ELSE cache]

\* callback is not in reg yet
Unregistered(reg, callback) == \A i \in 1..Len(reg) : reg[i].callback # callback

Without(seq, x) == SelectSeq(seq, LAMBDA y : y # x)

\* the handles registered after h that are still live
After(scopes, h) ==
    {scopes[j] : j \in {k \in 1..Len(scopes) :
                          \E i \in 1..(k - 1) : scopes[i] = h}}

\* no handle: the caller drops the InjectionContext that register returns
Dropped == 0

\* the fields of the global store
GlobalFields ==
    [providers |-> providers, processors |-> processors,
     provMap |-> provMap, procMap |-> procMap]

\* what InjectionContext.__init__ did: the fields st of the store, the
\* disposers that the context holds and the exception raised ("" for none)
Context(st, ds, raised) == [st |-> st, disposers |-> ds, raised |-> raised]

\* the fields of a store once _register_callbacks has returned for the
\* providers rp and for the processors rq
Extended(st, rp, rq) ==
    [st EXCEPT !.providers = rp.reg, !.provMap = rp.cache,
               !.processors = rq.reg, !.procMap = rq.cache]

\* InjectionContext(store, providers=pv, processors=pc) on a store with the
\* fields st: the providers are registered first, and an exception ends the
\* construction where it is raised
InjectionContext(st, pv, pc) ==
    IF register_error(pv, TRUE) # ""
    THEN Context(st, <<>>, register_error(pv, TRUE))
    ELSE IF register_error(pc, FALSE) # ""
    THEN Context(Extended(st,
                          register_callbacks(st.providers, st.provMap,
                                             Hinted(pv, TRUE)),
                          [reg |-> st.processors, cache |-> st.procMap]),
                 <<>>, register_error(pc, FALSE))
    ELSE Context(Extended(st,
                          register_callbacks(st.providers, st.provMap,
                                             Hinted(pv, TRUE)),
                          register_callbacks(st.processors, st.procMap,
                                             Hinted(pc, FALSE))),
                 DisposersFor(Hinted(pv, TRUE), TRUE)
                     \o DisposersFor(Hinted(pc, FALSE), FALSE),
                 "")

\* the global store and the handles once store.register(...), whose record
\* is called, has done r; the context of a call that raised is lost
Registering(h, r, called) ==
    LET kept == h # Dropped /\ r.disposers # <<>>
    IN  /\ h # Dropped => disposers[h] = <<>>
        /\ Len(r.st.providers) + Len(r.st.processors) <= MaxReg
        /\ providers' = r.st.providers
        /\ provMap' = r.st.provMap
        /\ processors' = r.st.processors
        /\ procMap' = r.st.procMap
        /\ disposers' = IF kept THEN [disposers EXCEPT ![h] = r.disposers]
                        ELSE disposers
        /\ hist' = IF kept
                   THEN [hist EXCEPT
                           !.scopes = Append(@, h),
                           !.before[h] = [prov |-> Len(providers),
                                          proc |-> Len(processors)],
                           !.scoped[h] = TRUE]
                   ELSE hist
        /\ last' = [called EXCEPT
                      !.h = h, !.live = kept,
                      !.raised = r.raised # "",
                      !.error = [NoError EXCEPT !.type = r.raised]]
        /\ UNCHANGED <<instances, heap, collected, wrappers>>

\* store.register(providers=pv, processors=pc), the handle being kept as h
\* (or dropped); register_provider and register_processor are the one-tuple
\* cases
Register(h, pv, pc) ==
    Registering(h, InjectionContext(GlobalFields, pv, pc),
                [NoLast EXCEPT !.op = "register", !.providers = pv,
                               !.processors = pc])

\* InjectionContext.cleanup(), also reached through __exit__ (which ignores
\* whether the body raised)
Cleanup(h) ==
    LET ds == disposers[h]
    IN  /\ providers' = RunDisposers(providers, ds, 1, TRUE)
        /\ provMap' = IF HasDisposer(ds, TRUE) THEN NoCache ELSE provMap
        /\ processors' = RunDisposers(processors, ds, 1, FALSE)
        /\ procMap' = IF HasDisposer(ds, FALSE) THEN NoCache ELSE procMap
        /\ disposers' = [disposers EXCEPT ![h] = <<>>]
        /\ hist' = IF ds = <<>> THEN hist
                   ELSE [hist EXCEPT
                           !.scopes = Without(@, h),
                           !.before[h] = [prov |-> 0, proc |-> 0],
                           !.scoped = [g \in Handles |->
                                         IF g = h \/ g \in After(hist.scopes, h)
                                         THEN FALSE ELSE @[g]],
                           !.onlyRegs = FALSE]
        /\ last' = [NoLast EXCEPT
                      !.op = "cleanup", !.h = h, !.live = ds # <<>>,
                      !.nested = /\ ds # <<>>
                                 /\ hist.scoped[h]
                                 /\ After(hist.scopes, h) = {}]
        /\ UNCHANGED <<instances, heap, collected, wrappers>>

\* both memoized maps of a store have been built and are not empty
BothCached(st) ==
    /\ st.provMap.built /\ st.provMap.all # <<>>
    /\ st.procMap.built /\ st.procMap.all # <<>>

\* Faulty variant of clear: the memoized maps are kept.
clear_keeps_cache(st) == [st EXCEPT !.providers = <<>>, !.processors = <<>>]

\* what Store.clear does to the fields of a store
clear(st) ==
    [st EXCEPT !.providers = <<>>, !.processors = <<>>,
               !.provMap = NoCache, !.procMap = NoCache]

\* GLOBAL_STORE.clear()
Clear ==
    /\ providers' = clear(GlobalFields).providers
    /\ processors' = clear(GlobalFields).processors
    /\ provMap' = clear(GlobalFields).provMap
    /\ procMap' = clear(GlobalFields).procMap
    /\ UNCHANGED disposers
    /\ hist' = [hist EXCEPT
                  !.scoped = [g \in Handles |-> FALSE],
                  !.onlyRegs = FALSE]
    /\ last' = [NoLast EXCEPT !.op = "clear", !.cached = BothCached(GlobalFields)]
    /\ UNCHANGED <<instances, heap, collected, wrappers>>

\* the global store once store.mark_provider or store.mark_processor, whose
\* record is called, has registered func with the result r: a ValueError is
\* caught and becomes a warning, func is returned, and the InjectionContext
\* is dropped
Marking(func, r, called) ==
    /\ Len(r.st.providers) + Len(r.st.processors) <= MaxReg
    /\ providers' = r.st.providers
    /\ provMap' = r.st.provMap
    /\ processors' = r.st.processors
    /\ procMap' = r.st.procMap
    /\ last' = [called EXCEPT
                  !.raised = r.raised \notin {"", "ValueError"},
                  !.error = [NoError EXCEPT
                                !.type = IF r.raised = "ValueError" THEN ""
                                         ELSE r.raised],
                  !.warnings = IF r.raised = "ValueError" THEN <<func>> ELSE <<>>,
                  !.out = IF r.raised \in {"", "ValueError"}
                          THEN Function(func, <<>>) ELSE NoFunction]
    /\ UNCHANGED <<disposers, hist, instances, heap, collected, wrappers>>

\* store.mark_provider(func, type_hint=..., weight=...)
MarkProvider(func, type_hint, weight) ==
    Marking(func,
            InjectionContext(GlobalFields,
                             Given(<<Tup(func, type_hint, weight)>>), NotGiven),
            [NoLast EXCEPT !.op = "mark_provider",
                           !.providers = Given(<<Tup(func, type_hint, weight)>>)])

\* store.mark_processor(func, type_hint=..., weight=...)
MarkProcessor(func, type_hint, weight) ==
    Marking(func,
            InjectionContext(GlobalFields, NotGiven,
                             Given(<<Tup(func, type_hint, weight)>>)),
            [NoLast EXCEPT !.op = "mark_processor",
                           !.processors = Given(<<Tup(func, type_hint, weight)>>)])

(***************************************************************************)
(* Lookup and retrieval.                                                   *)
(***************************************************************************)
\* list(store.iter_providers(type_hint))
IterProviders(type_hint) ==
    LET cmap == ReadCache(provMap, providers)
    IN  /\ provMap' = cmap
        /\ UNCHANGED <<providers, processors, procMap, disposers, hist>>
        /\ UNCHANGED <<instances, heap, collected, wrappers>>
        /\ last' = [NoLast EXCEPT
                      !.op = "iter_providers", !.hint = type_hint,
                      !.yielded = iter_type_map(type_hint, cmap)]

\* list(store.iter_processors(type_hint))
IterProcessors(type_hint) ==
    LET cmap == ReadCache(procMap, processors)
    IN  /\ procMap' = cmap
        /\ UNCHANGED <<providers, processors, provMap, disposers, hist>>
        /\ UNCHANGED <<instances, heap, collected, wrappers>>
        /\ last' = [NoLast EXCEPT
                      !.op = "iter_processors", !.hint = type_hint,
                      !.yielded = iter_type_map(type_hint, cmap)]

\* store.provide(type_hint); a forwarding callback whose method is gone
\* removes its entries and deletes the memoized map
Provide(type_hint) ==
    LET cmap == ReadCache(provMap, providers)
        run == provide(type_hint, cmap)
    IN  /\ provMap' = IF ReachedDead(run.invoked) THEN NoCache ELSE cmap
        /\ providers' = methodwrap_reap(providers, run.invoked)
        /\ UNCHANGED <<processors, procMap, disposers, hist>>
        /\ UNCHANGED <<instances, heap, collected, wrappers>>
        /\ last' = [NoLast EXCEPT
                      !.op = "provide", !.hint = type_hint,
                      !.yielded = iter_type_map(type_hint, cmap),
                      !.invoked = run.invoked,
                      !.result = run.result]

\* store.process(result, type_hint=..., first_processor_only=...,
\* raise_exception=...); a forwarding callback whose method is gone removes
\* its entries and deletes the memoized map
Process(result, type_hint, first_processor_only, raise_exception) ==
    LET cmap == ReadCache(procMap, processors)
        th == IF type_hint = NoHint THEN Plain(TypeOf(result)) ELSE type_hint
        run == process(result, type_hint, first_processor_only, raise_exception, cmap)
    IN  /\ procMap' = IF ReachedDead(run.invoked) THEN NoCache ELSE cmap
        /\ processors' = methodwrap_reap(processors, run.invoked)
        /\ UNCHANGED <<providers, provMap, disposers, hist>>
        /\ UNCHANGED <<instances, heap, collected, wrappers>>
        /\ last' = [NoLast EXCEPT
                      !.op = "process", !.hint = type_hint, !.arg = result,
                      !.first_processor_only = first_processor_only,
                      !.raise_exception = raise_exception,
                      !.yielded = iter_type_map(th, cmap),
                      !.invoked = run.invoked,
                      !.warned = run.warned,
                      !.raised = run.raised,
                      !.nprocess = 1]

(***************************************************************************)
(* The wrappers.                                                           *)
(***************************************************************************)
\* store.inject(fn)(*args, **kwargs)
CallInjected(fn, npos, kw, v) ==
    LET params == Parameters(fn)
        supplied == bind_partial(params, npos, kw, v)
        arguments == apply_defaults(params, supplied)
        needs == \E i \in 1..Len(params) : arguments[i] = Absent
        cmap == ReadCache(provMap, providers)
        lookups == Lookups(params, arguments, cmap)
        bound == Injected(arguments, lookups)
        missing == \E i \in 1..Len(params) : bound[i] = Absent
    IN  /\ UNCHANGED <<providers, processors, procMap, disposers, hist>>
        /\ UNCHANGED <<instances, heap, collected, wrappers>>
        /\ IF BindFails(npos, kw)
           THEN /\ UNCHANGED provMap
                /\ last' = [NoLast EXCEPT !.op = "call", !.fn = fn, !.raised = TRUE,
                                           !.error = bind_error]
           ELSE /\ provMap' = IF needs THEN cmap ELSE provMap
                /\ last' = [NoLast EXCEPT
                              !.op = "call", !.fn = fn,
                              !.supplied = supplied,
                              !.lookups = lookups,
                              !.bound = bound,
                              !.ran = ~missing,
                              !.raised = missing,
                              !.error = IF missing THEN missing_error(params, lookups)
                                        ELSE NoError]

\* Faulty variant of processors_exec: a None result is processed too.
processors_exec_unguarded(ret, hint, first_processor_only, raise_exception, cmap) ==
    LET run == process(ret, hint, first_processor_only, raise_exception, cmap)
        th == IF hint = NoHint THEN Plain(TypeOf(ret)) ELSE hint
    IN  [nprocess |-> 1, yielded |-> iter_type_map(th, cmap),
         invoked |-> run.invoked, warned |-> run.warned, raised |-> run.raised,
         result |-> IF run.raised THEN None ELSE ret]

\* Store.inject_processors._exec, for a func that returned ret: process() is
\* called unless ret is None, and ret is returned unless process() raised
processors_exec(ret, hint, first_processor_only, raise_exception, cmap) ==
    LET run == process(ret, hint, first_processor_only, raise_exception, cmap)
        th == IF hint = NoHint THEN Plain(TypeOf(ret)) ELSE hint
    IN  IF ret # None
        THEN [nprocess |-> 1, yielded |-> iter_type_map(th, cmap),
              invoked |-> run.invoked, warned |-> run.warned, raised |-> run.raised,
              result |-> IF run.raised THEN None ELSE ret]
        ELSE [nprocess |-> 0, yielded |-> <<>>, invoked |-> <<>>, warned |-> <<>>,
              raised |-> FALSE, result |-> ret]

\* store.inject_processors(func, type_hint=..., first_processor_only=...,
\* raise_exception=...)(...), for a func that is annotated "-> annotation"
\* (NoHint: not annotated) and returns ret
CallProcessed(ret, annotation, type_hint, first_processor_only, raise_exception) ==
    LET hint == IF type_hint = NoHint THEN annotation ELSE type_hint
        cmap == ReadCache(procMap, processors)
        ex == processors_exec(ret, hint, first_processor_only, raise_exception, cmap)
    IN  /\ UNCHANGED <<providers, processors, provMap, disposers, hist>>
        /\ UNCHANGED <<instances, heap, collected, wrappers>>
        /\ procMap' = IF ex.nprocess > 0 THEN cmap ELSE procMap
        /\ last' = [NoLast EXCEPT
                      !.op = "call_processed", !.hint = hint, !.arg = ret,
                      !.first_processor_only = first_processor_only,
                      !.raise_exception = raise_exception,
                      !.ran = TRUE,
                      !.yielded = ex.yielded,
                      !.invoked = ex.invoked,
                      !.warned = ex.warned,
                      !.raised = ex.raised,
                      !.nprocess = ex.nprocess,
                      !.result = ex.result]

(***************************************************************************)
(* The registry of stores, and the stores made by Store.create.            *)
(***************************************************************************)
MaxStores == 2

\* Store.create(name)
Create(name) ==
    LET key == lower(name)
        fails == key = GLOBAL \/ key \in DOMAIN instances
        new == Len(heap) + 1
    IN  /\ fails \/ Len(heap) < MaxStores
        /\ instances' = IF fails THEN instances ELSE instances @@ (key :> new)
        /\ heap' = IF fails THEN heap ELSE Append(heap, EmptyStore)
        /\ last' = [NoLast EXCEPT
                      !.op = "create", !.named = TRUE, !.name = name,
                      !.raised = fails,
                      !.store = IF fails THEN GLOBAL_STORE ELSE new]
        /\ UNCHANGED <<providers, processors, provMap, procMap, disposers, hist,
                       collected, wrappers>>

\* Store.get_store(name), or Store.get_store() when not named
GetStore(named, name) ==
    LET key == lower(name_or_global(named, name))
        fails == key \notin DOMAIN instances
    IN  /\ last' = [NoLast EXCEPT
                      !.op = "get_store", !.named = named, !.name = name,
                      !.raised = fails,
                      !.store = IF fails THEN GLOBAL_STORE ELSE instances[key]]
        /\ UNCHANGED <<providers, processors, provMap, procMap, disposers, hist,
                       instances, heap, collected, wrappers>>

\* Store.destroy(name); an instance that is no longer registered lives on for
\* whoever holds it
Destroy(name) ==
    LET key == lower(name)
        fails == key = GLOBAL \/ key \notin DOMAIN instances
    IN  /\ instances' = IF fails THEN instances
                        ELSE [k \in DOMAIN instances \ {key} |-> instances[k]]
        /\ last' = [NoLast EXCEPT
                      !.op = "destroy", !.named = TRUE, !.name = name,
                      !.raised = fails]
        /\ UNCHANGED <<providers, processors, provMap, procMap, disposers, hist,
                       heap, collected, wrappers>>

\* s.register(providers=pv, processors=pc) on the created instance s, the
\* handle being dropped
RegisterIn(s, pv, pc) ==
    /\ Len(InjectionContext(heap[s], pv, pc).st.providers)
          + Len(InjectionContext(heap[s], pv, pc).st.processors) <= MaxReg
    /\ heap' = [heap EXCEPT ![s] = InjectionContext(heap[s], pv, pc).st]
    /\ last' = [NoLast EXCEPT
                  !.op = "register", !.store = s, !.providers = pv,
                  !.processors = pc,
                  !.raised = InjectionContext(heap[s], pv, pc).raised # "",
                  !.error = [NoError EXCEPT
                                !.type = InjectionContext(heap[s], pv, pc).raised]]
    /\ UNCHANGED <<providers, processors, provMap, procMap, disposers, hist,
                   instances, collected, wrappers>>

\* s.clear() on the created instance s
ClearIn(s) ==
    /\ heap' = [heap EXCEPT ![s] = clear(@)]
    /\ last' = [NoLast EXCEPT !.op = "clear", !.store = s,
                                !.cached = BothCached(heap[s])]
    /\ UNCHANGED <<providers, processors, provMap, procMap, disposers, hist,
                   instances, collected, wrappers>>

\* list(s.iter_providers(type_hint)) on the created instance s
IterProvidersIn(s, type_hint) ==
    LET cmap == ReadCache(heap[s].provMap, heap[s].providers)
    IN  /\ heap' = [heap EXCEPT ![s].provMap = cmap]
        /\ last' = [NoLast EXCEPT
                      !.op = "iter_providers", !.store = s, !.hint = type_hint,
                      !.yielded = iter_type_map(type_hint, cmap)]
        /\ UNCHANGED <<providers, processors, provMap, procMap, disposers, hist,
                       instances, collected, wrappers>>

\* list(s.iter_processors(type_hint)) on the created instance s
IterProcessorsIn(s, type_hint) ==
    LET cmap == ReadCache(heap[s].procMap, heap[s].processors)
    IN  /\ heap' = [heap EXCEPT ![s].procMap = cmap]
        /\ last' = [NoLast EXCEPT
                      !.op = "iter_processors", !.store = s, !.hint = type_hint,
                      !.yielded = iter_type_map(type_hint, cmap)]
        /\ UNCHANGED <<providers, processors, provMap, procMap, disposers, hist,
                       instances, collected, wrappers>>

\* the last reference to the owner of the bound methods is dropped and the
\* object is collected
Collect ==
    /\ ~collected
    /\ collected' = TRUE
    /\ last' = [NoLast EXCEPT !.op = "collect"]
    /\ UNCHANGED <<providers, processors, provMap, procMap, disposers, hist,
                   instances, heap, wrappers>>

(***************************************************************************)
(* Decorating, and calling what was decorated.                             *)
(***************************************************************************)
MaxDecorators == 1

\* the names of the three attributes of a store that inject falls back on
Attributes ==
    {"on_unresolved_required_args", "on_unannotated_required_args", "guess_self"}

\* GLOBAL_STORE.<name> = value
SetAttribute(name, value) ==
    /\ defaults[name] # value
    /\ defaults' = [defaults EXCEPT ![name] = value]
    /\ last' = [NoLast EXCEPT !.op = "set_attribute"]
    /\ UNCHANGED <<providers, processors, provMap, procMap, disposers, hist,
                   instances, heap, collected, threads, held, decorators,
                   generator>>

\* held = <a decoration that gives r>, called is the record of the call;
\* when the decoration raises, held stays what it was
Hold(r, called) ==
    /\ held' = IF r.raised = "" THEN r.out ELSE held
    /\ last' = [called EXCEPT
                  !.raised = r.raised # "",
                  !.error = [NoError EXCEPT !.type = r.raised],
                  !.warnings = r.warnings,
                  !.out = r.out]
    /\ UNCHANGED <<providers, processors, provMap, procMap, disposers, hist,
                   instances, heap, collected, threads, defaults, decorators,
                   generator>>

\* held = store.inject(func, providers=..., processors=..., ...)
Inject(func, providers_on, processors_on, on_unres, on_unann, guess_self) ==
    Hold(inject(func, providers_on, processors_on, on_unres, on_unann,
                guess_self, defaults),
         [NoLast EXCEPT
             !.op = "inject", !.func = func,
             !.given = Options(providers_on, processors_on, on_unres,
                               on_unann, guess_self, NoHint)])

\* held = store.inject_processors(func, type_hint=..., first_processor_only=...,
\* raise_exception=...)
InjectProcessors(func, type_hint, first_processor_only, raise_exception) ==
    Hold(inject_processors(func, type_hint, first_processor_only, raise_exception),
         [NoLast EXCEPT
             !.op = "inject_processors", !.func = func,
             !.given = [NotDecorating EXCEPT !.processors = TRUE,
                                             !.type_hint = type_hint],
             !.first_processor_only = first_processor_only,
             !.raise_exception = raise_exception])

\* store.inject_processors(type_hint=...), without func: a decorator object,
\* whose closure holds the type_hint cell
MakeDecorator(type_hint) ==
    /\ Len(decorators) < MaxDecorators
    /\ decorators' = Append(decorators, [given |-> type_hint, type_hint |-> type_hint])
    /\ last' = [NoLast EXCEPT !.op = "make_decorator",
                                !.given = [NotDecorating EXCEPT !.processors = TRUE,
                                                                !.type_hint = type_hint]]
    /\ UNCHANGED <<providers, processors, provMap, procMap, disposers, hist,
                   instances, heap, collected, threads, defaults, held,
                   generator>>

\* held = decorator(func), for the decorator object number c: _deco writes
\* the cell that all the closures made by this decorator read
ApplyDecorator(c, func) ==
    LET r == processors_deco(func, decorators[c].type_hint)
    IN  /\ decorators' = [decorators EXCEPT ![c].type_hint = r.hint]
        /\ held' = IF r.raised = ""
                   THEN Function(func.fn,
                                 Append(func.layers,
                                        ProcessorsLayer(decorators[c].given, NoHint, c,
                                                        FALSE, FALSE)))
                   ELSE held
        /\ last' = [NoLast EXCEPT
                      !.op = "decorator", !.func = func, !.h = c,
                      !.given = [NotDecorating EXCEPT !.processors = TRUE,
                                                      !.type_hint = decorators[c].given],
                      !.raised = r.raised # "",
                      !.error = [NoError EXCEPT !.type = r.raised],
                      !.out = held']
        /\ UNCHANGED <<providers, processors, provMap, procMap, disposers,
                       hist, instances, heap, collected, threads, defaults,
                       generator>>

\* what the body of the def fn returns, or yields, given its arguments
Returns(fn, arguments) ==
    IF arguments = <<>> THEN FunctionDef(fn).value ELSE arguments[1]

\* the TypeError of a call that lacks a required argument ("... missing 1
\* required positional argument ...")
call_error == [type |-> "TypeError", after_injecting |-> FALSE, names |-> {}]

\* the exception of a processor, which process() raises again
processor_error == [type |-> "Exception", after_injecting |-> FALSE, names |-> {}]

RECURSIVE Exec(_, _, _, _, _)
\* func(...) for a function object, the arguments being given per parameter
\* (Absent: not given).  The _exec of inject applies the defaults, runs the
\* provider loop over pmap and calls the wrapped function with
\* bound.arguments; the _exec of inject_processors calls the wrapped
\* function and processes the result over qmap, under the value its
\* type_hint cell has now.  provided lists the lookups of each _exec of
\* inject and processed what each _exec of inject_processors did, outermost
\* first; missing: the exception is a TypeError with "missing" in it.
Exec(func, arguments, pmap, qmap, cells) ==
    IF func.layers = <<>>
    THEN LET missing == \E i \in 1..Len(arguments) : arguments[i] = Absent
         IN  [raised |-> missing, missing |-> missing,
              error |-> IF missing THEN call_error ELSE NoError,
              ran |-> ~missing,
              result |-> IF missing THEN None ELSE Returns(func.fn, arguments),
              bound |-> arguments, provided |-> <<>>, processed |-> <<>>]
    ELSE IF Outermost(func).kind = "inject"
    THEN LET params == Outermost(func).sig.parameters
             applied == apply_defaults(params, arguments)
             lookups == Lookups(params, applied, pmap)
             inner == Exec(Wrapped(func), Injected(applied, lookups), pmap, qmap, cells)
         IN  [inner EXCEPT
                !.error = IF inner.raised /\ inner.missing
                          THEN missing_error(params, lookups) ELSE @,
                !.provided = <<lookups>> \o @]
    ELSE LET inner == Exec(Wrapped(func), arguments, pmap, qmap, cells)
             top == Outermost(func)
             hint == IF top.cell = 0 THEN top.hint ELSE cells[top.cell].type_hint
             ex == processors_exec(inner.result, hint, top.first_processor_only,
                                   top.raise_exception, qmap)
             did == [hint |-> hint, nprocess |-> ex.nprocess, yielded |-> ex.yielded,
                     invoked |-> ex.invoked, warned |-> ex.warned]
         IN  IF inner.raised
             THEN inner
             ELSE [inner EXCEPT
                     !.raised = ex.raised,
                     !.missing = FALSE,
                     !.error = IF ex.raised THEN processor_error ELSE NoError,
                     !.result = ex.result,
                     !.processed = <<did>> \o @]

\* some _exec of inject had a parameter to look up
Consulted(provided) ==
    \E k \in 1..Len(provided) : \E i \in 1..Len(provided[k]) : provided[k][i].called

\* some _exec of inject_processors called process()
Processing(processed) == \E k \in 1..Len(processed) : processed[k].nprocess > 0

\* held(*args, **kwargs), for a held function that is not a generator
\* function; the first npos parameters are given positionally and those of
\* kw by keyword, all with the value v
CallHeld(npos, kw, v) ==
    LET params == FunctionDef(held.fn).params
        pmap == ReadCache(provMap, providers)
        qmap == ReadCache(procMap, processors)
        ex == Exec(held, bind_partial(params, npos, kw, v), pmap, qmap, decorators)
    IN  /\ held # NoFunction
        /\ ~isgeneratorfunction(held)
        /\ npos <= Len(params)
        /\ kw \subseteq 1..Len(params)
        /\ ~BindFails(npos, kw)
        /\ provMap' = IF Consulted(ex.provided) THEN pmap ELSE provMap
        /\ procMap' = IF Processing(ex.processed) THEN qmap ELSE procMap
        /\ last' = [NoLast EXCEPT
                      !.op = "call_held", !.func = held,
                      !.supplied = bind_partial(params, npos, kw, v),
                      !.bound = ex.bound,
                      !.raised = ex.raised,
                      !.error = ex.error,
                      !.ran = ex.ran,
                      !.result = ex.result,
                      !.provided = ex.provided,
                      !.processed = ex.processed]
        /\ UNCHANGED <<providers, processors, disposers, hist, instances, heap,
                       collected, wrappers>>

\* the elements that the generator def fn produces, given its arguments
Elements(fn, arguments) == <<Returns(fn, arguments), Returns(fn, arguments)>>

\* generator = held(*args, **kwargs), for a held generator function.  The
\* call of a generator def binds its arguments; the call of _gexec binds
\* nothing and runs nothing.
CallGeneratorFunction(npos, kw, v) ==
    LET params == FunctionDef(held.fn).params
        arguments == bind_partial(params, npos, kw, v)
        missing == held.layers = <<>> /\ \E i \in 1..Len(params) : arguments[i] = Absent
    IN  /\ held # NoFunction
        /\ isgeneratorfunction(held)
        /\ npos <= Len(params)
        /\ kw \subseteq 1..Len(params)
        /\ ~BindFails(npos, kw)
        /\ generator' = IF missing THEN generator
                        ELSE [NoGenerator EXCEPT
                                !.status = "created", !.func = held,
                                !.arguments = arguments,
                                !.registered = providers]
        /\ last' = [NoLast EXCEPT
                      !.op = "call_generator", !.func = held,
                      !.supplied = arguments,
                      !.raised = missing,
                      !.error = IF missing THEN call_error ELSE NoError]
        /\ UNCHANGED <<providers, processors, provMap, procMap, disposers,
                       hist, instances, heap, collected, threads, defaults,
                       held, decorators>>

\* the first next() on the generator object g: the body of _gexec runs up to
\* its first yield, that is, _exec runs (once) and the generator that the
\* wrapped def returns is delegated to
gexec_start(g, pmap, qmap, cells) ==
    LET ex == Exec(g.func, g.arguments, pmap, qmap, cells)
    IN  [ex |-> ex, consulted |-> Len(ex.provided)]

\* next(generator)
Advance ==
    LET g == generator
        pmap == ReadCache(provMap, providers)
        qmap == ReadCache(procMap, processors)
        start == gexec_start(g, pmap, qmap, decorators)
        elements == Elements(g.func.fn, g.bound)
        first == Elements(g.func.fn, start.ex.bound)[1]
    IN  /\ g.status \in {"created", "started"}
        /\ UNCHANGED <<providers, processors, procMap, disposers, hist,
                       instances, heap, collected, threads, defaults, held,
                       decorators>>
        /\ IF g.status = "created"
           THEN /\ provMap' = IF Consulted(start.ex.provided) THEN pmap ELSE provMap
                /\ generator' = IF start.ex.raised
                                THEN [g EXCEPT !.status = "done",
                                               !.consulted = start.consulted]
                                ELSE [g EXCEPT !.status = "started",
                                               !.bound = start.ex.bound,
                                               !.yielded = <<first>>,
                                               !.consulted = start.consulted]
                /\ last' = [NoLast EXCEPT
                              !.op = "next", !.func = g.func,
                              !.supplied = g.arguments,
                              !.bound = start.ex.bound,
                              !.provided = start.ex.provided,
                              !.raised = start.ex.raised,
                              !.error = start.ex.error,
                              !.ran = start.ex.ran,
                              !.result = IF start.ex.raised THEN None ELSE first]
           ELSE /\ UNCHANGED provMap
                /\ generator' = IF Len(g.yielded) < Len(elements)
                                THEN [g EXCEPT !.yielded = Append(@, elements[Len(@) + 1])]
                                ELSE [g EXCEPT !.status = "done"]
                /\ last' = [NoLast EXCEPT
                              !.op = "next", !.func = g.func,
                              !.supplied = g.arguments,
                              !.bound = g.bound,
                              !.raised = Len(g.yielded) >= Len(elements),
                              !.error = IF Len(g.yielded) >= Len(elements)
                                        THEN [NoError EXCEPT !.type = "StopIteration"]
                                        ELSE NoError,
                              !.result = IF Len(g.yielded) < Len(elements)
                                         THEN elements[Len(g.yielded) + 1] ELSE None]

(***************************************************************************)
(* Callbacks that act on the store that invokes them.  pReg and qReg       *)
(* register a callback of their own role for int, once, and drop the       *)
(* handle; pClean and qClean clean up the handle that they hold.  As       *)
(* providers they return None; as processors they do not raise.            *)
(***************************************************************************)
\* the handle that pClean and qClean hold
HeldHandle == CHOOSE h \in Handles : \A g \in Handles : h <= g

\* the fields of a store and the disposers of the handles, as one value
Env(st, ds) == [st |-> st, disposers |-> ds]

\* InjectionContext.cleanup() of handle h
cleanup(env, h) ==
    Env([providers |-> RunDisposers(env.st.providers, env.disposers[h], 1, TRUE),
         provMap |-> IF HasDisposer(env.disposers[h], TRUE) THEN NoCache
                     ELSE env.st.provMap,
         processors |-> RunDisposers(env.st.processors, env.disposers[h], 1, FALSE),
         procMap |-> IF HasDisposer(env.disposers[h], FALSE) THEN NoCache
                     ELSE env.st.procMap],
        [env.disposers EXCEPT ![h] = <<>>])

\* what the body of a callback does to the store when it is invoked
Invoke(callback, env) ==
    CASE callback = "pReg" /\ Unregistered(env.st.providers, "pZero") ->
            Env(InjectionContext(env.st,
                                 Given(<<Tup("pZero", Plain("int"), MaxWeight)>>),
                                 NotGiven).st,
                env.disposers)
      [] callback = "qReg" /\ Unregistered(env.st.processors, "qB") ->
            Env(InjectionContext(env.st, NotGiven,
                                 Given(<<Tup("qB", Plain("int"), MaxWeight)>>)).st,
                env.disposers)
      [] callback \in {"pClean", "qClean"} -> cleanup(env, HeldHandle)
      [] OTHER -> env

\* Faulty variant of Pending: the loop reads the callbacks of the store as
\* they are now.
Pending_live(snapshot, live) == live

\* the callbacks that the loop of a call in progress goes through: the list
\* of the memoized map that the lookup read when the call started, which no
\* registration and no cleanup changes (live is what a lookup would read now)
Pending(snapshot, live) == snapshot

\* the loop of Store.provide over the providers provs, the store being env
\* before provider i is called
RECURSIVE provide_loop(_, _, _, _, _)
provide_loop(type_hint, provs, env, i, invoked) ==
    IF i > Len(Pending(provs, iter_type_map(type_hint, build_map(env.st.providers))))
    THEN [result |-> None, invoked |-> invoked, env |-> env]
    ELSE IF Ret(Pending(provs, iter_type_map(type_hint,
                                             build_map(env.st.providers)))[i]) # None
    THEN [result |-> Ret(Pending(provs,
                                 iter_type_map(type_hint,
                                               build_map(env.st.providers)))[i]),
          invoked |-> Append(invoked,
                             Pending(provs,
                                     iter_type_map(type_hint,
                                                   build_map(env.st.providers)))[i]),
          env |-> Invoke(Pending(provs,
                                 iter_type_map(type_hint,
                                               build_map(env.st.providers)))[i],
                         env)]
    ELSE provide_loop(type_hint, provs,
                      Invoke(Pending(provs,
                                     iter_type_map(type_hint,
                                                   build_map(env.st.providers)))[i],
                             env),
                      i + 1,
                      Append(invoked,
                             Pending(provs,
                                     iter_type_map(type_hint,
                                                   build_map(env.st.providers)))[i]))

\* the loop of Store.process (no processor here raises, and
\* first_processor_only is left False) over the processors procs, the store
\* being env before processor i is called
RECURSIVE process_loop(_, _, _, _, _)
process_loop(type_hint, procs, env, i, invoked) ==
    IF i > Len(Pending(procs, iter_type_map(type_hint, build_map(env.st.processors))))
    THEN [result |-> None, invoked |-> invoked, env |-> env]
    ELSE process_loop(type_hint, procs,
                      Invoke(Pending(procs,
                                     iter_type_map(type_hint,
                                                   build_map(env.st.processors)))[i],
                             env),
                      i + 1,
                      Append(invoked,
                             Pending(procs,
                                     iter_type_map(type_hint,
                                                   build_map(env.st.processors)))[i]))

\* the store and the handles once a call whose callbacks act on the store
\* has done run, the record of the call being called
Reentered(run, called) ==
    /\ Len(run.env.st.providers) + Len(run.env.st.processors) <= MaxReg
    /\ providers' = run.env.st.providers
    /\ provMap' = run.env.st.provMap
    /\ processors' = run.env.st.processors
    /\ procMap' = run.env.st.procMap
    /\ disposers' = run.env.disposers
    /\ hist' = IF run.env.disposers = disposers THEN hist
               ELSE [hist EXCEPT
                       !.scopes = Without(@, HeldHandle),
                       !.before[HeldHandle] = [prov |-> 0, proc |-> 0],
                       !.scoped = [g \in Handles |->
                                     IF g = HeldHandle
                                           \/ g \in After(hist.scopes, HeldHandle)
                                     THEN FALSE ELSE @[g]],
                       !.onlyRegs = FALSE]
    /\ last' = [called EXCEPT !.invoked = run.invoked, !.result = run.result]
    /\ UNCHANGED <<instances, heap, collected, wrappers>>

\* store.provide(type_hint) where providers act on the store: cmap is the
\* memoized map that the lookup reads, and keeps
ProvideFromMap(type_hint, cmap) ==
    Reentered(provide_loop(type_hint, iter_type_map(type_hint, cmap),
                           Env([GlobalFields EXCEPT !.provMap = cmap], disposers),
                           1, <<>>),
              [NoLast EXCEPT !.op = "provide", !.hint = type_hint,
                             !.yielded = iter_type_map(type_hint, cmap)])

ProvideReentrant(type_hint) ==
    ProvideFromMap(type_hint, ReadCache(provMap, providers))

\* store.process(result) where processors act on the store
ProcessFromMap(result, cmap) ==
    Reentered(process_loop(Plain(TypeOf(result)),
                           iter_type_map(Plain(TypeOf(result)), cmap),
                           Env([GlobalFields EXCEPT !.procMap = cmap], disposers),
                           1, <<>>),
              [NoLast EXCEPT !.op = "process", !.arg = result,
                             !.yielded = iter_type_map(Plain(TypeOf(result)), cmap)])

ProcessReentrant(result) == ProcessFromMap(result, ReadCache(procMap, processors))

(***************************************************************************)
(* Parameter kinds.  A call passes positional values args and keyword      *)
(* values kwargs (a function from names to values); what a function        *)
(* returns is the binding of its parameters.  The value of *args is a      *)
(* sequence and the value of **kwargs a function from names to values.     *)
(***************************************************************************)
MaxArgs == 2

KindParam(name, kind, default) == [name |-> name, kind |-> kind, default |-> default]

\* def pk(a: int, b: int = dflt)      def po(a: int, /)
\* def ko(a: int, *, k: int)          def va(a: int, *args: int)
\* def vk(a: int, **kwargs: int)
KindDef(fn) ==
    CASE fn = "pk" -> <<KindParam("a", "POSITIONAL_OR_KEYWORD", Empty),
                        KindParam("b", "POSITIONAL_OR_KEYWORD", "dflt")>>
      [] fn = "po" -> <<KindParam("a", "POSITIONAL_ONLY", Empty)>>
      [] fn = "ko" -> <<KindParam("a", "POSITIONAL_OR_KEYWORD", Empty),
                        KindParam("k", "KEYWORD_ONLY", Empty)>>
      [] fn = "va" -> <<KindParam("a", "POSITIONAL_OR_KEYWORD", Empty),
                        KindParam("args", "VAR_POSITIONAL", Empty)>>
      [] fn = "vk" -> <<KindParam("a", "POSITIONAL_OR_KEYWORD", Empty),
                        KindParam("kwargs", "VAR_KEYWORD", Empty)>>

\* the parameters that take positional values, which come first
Positional(params) ==
    {i \in 1..Len(params) :
        params[i].kind \in {"POSITIONAL_ONLY", "POSITIONAL_OR_KEYWORD"}}

\* the parameters of one kind
OfKind(params, kind) == {i \in 1..Len(params) : params[i].kind = kind}

\* the number of parameters that the positional values fill
Filled(params, args) ==
    IF Len(args) < Cardinality(Positional(params)) THEN Len(args)
    ELSE Cardinality(Positional(params))

\* the parameters that a keyword may name once the positional values are
\* placed
Nameable(params, args) ==
    {i \in (1..Len(params)) \ (1..Filled(params, args)) :
        params[i].kind \in {"POSITIONAL_OR_KEYWORD", "KEYWORD_ONLY"}}

\* the keywords that name no such parameter
Leftover(params, args, kwargs) ==
    {k \in DOMAIN kwargs : \A i \in Nameable(params, args) : params[i].name # k}

\* more positional values than parameters to take them; a keyword for a
\* parameter that a positional value filled; a keyword that nothing takes
Unbindable(params, args, kwargs) ==
    \/ /\ Len(args) > Cardinality(Positional(params))
       /\ OfKind(params, "VAR_POSITIONAL") = {}
    \/ \E i \in 1..Filled(params, args) :
          /\ params[i].kind = "POSITIONAL_OR_KEYWORD"
          /\ params[i].name \in DOMAIN kwargs
    \/ /\ Leftover(params, args, kwargs) # {}
       /\ OfKind(params, "VAR_KEYWORD") = {}

\* the value that the call gives parameter i, Absent when it gives none
Given_(params, args, kwargs, i) ==
    CASE params[i].kind = "VAR_POSITIONAL" ->
            IF Len(args) > Cardinality(Positional(params))
            THEN SubSeq(args, Cardinality(Positional(params)) + 1, Len(args))
            ELSE Absent
      [] params[i].kind = "VAR_KEYWORD" ->
            IF Leftover(params, args, kwargs) # {}
            THEN [k \in Leftover(params, args, kwargs) |-> kwargs[k]]
            ELSE Absent
      [] i <= Filled(params, args) -> args[i]
      [] i > Filled(params, args) /\ i \in Nameable(params, args)
            /\ params[i].name \in DOMAIN kwargs -> kwargs[params[i].name]
      [] OTHER -> Absent

\* the parameters that the call gives a value
Bindable(params, args, kwargs) ==
    {i \in 1..Len(params) :
        \/ params[i].kind = "VAR_POSITIONAL"
              /\ Len(args) > Cardinality(Positional(params))
        \/ params[i].kind = "VAR_KEYWORD" /\ Leftover(params, args, kwargs) # {}
        \/ i <= Filled(params, args)
        \/ i \in Nameable(params, args) /\ params[i].name \in DOMAIN kwargs}

\* the outcome of a call or of a binding: the exception raised ("" for none)
\* and the values of the parameters by name
Outcome(raised, arguments) == [raised |-> raised, arguments |-> arguments]

NoOutcome == Outcome("", <<>>)

\* inspect.Signature.bind_partial(*args, **kwargs): a positional-only
\* parameter that is not filled and is named by a keyword is refused, whether
\* or not there is a **kwargs parameter
Signature_bind_partial(params, args, kwargs) ==
    IF \/ Unbindable(params, args, kwargs)
       \/ \E i \in (1..Len(params)) \ (1..Filled(params, args)) :
             /\ params[i].kind = "POSITIONAL_ONLY"
             /\ params[i].name \in DOMAIN kwargs
    THEN Outcome("TypeError", <<>>)
    ELSE Outcome("", [n \in {params[i].name : i \in Bindable(params, args, kwargs)} |->
                        Given_(params, args, kwargs,
                               CHOOSE i \in 1..Len(params) : params[i].name = n)])

\* BoundArguments.apply_defaults has a value for parameter i
HasDefault(params, i) ==
    \/ params[i].default # Empty
    \/ params[i].kind \in {"VAR_POSITIONAL", "VAR_KEYWORD"}

\* the default of BoundArguments.apply_defaults for parameter i
DefaultOf(params, i) ==
    CASE params[i].default # Empty -> params[i].default
      [] params[i].kind = "VAR_POSITIONAL" -> <<>>
      [] params[i].kind = "VAR_KEYWORD" -> [k \in {} |-> None]

\* BoundArguments.apply_defaults()
BoundArguments_apply_defaults(params, arguments) ==
    [n \in DOMAIN arguments
            \cup {params[i].name : i \in {j \in 1..Len(params) :
                                            HasDefault(params, j)}} |->
        IF n \in DOMAIN arguments THEN arguments[n]
        ELSE DefaultOf(params, CHOOSE i \in 1..Len(params) : params[i].name = n)]

\* the call fn(*args, **kwargs) of a Python function: a keyword that names a
\* positional-only parameter is a keyword like any other, *args and **kwargs
\* are always bound, defaults fill in, and a parameter left without a value
\* is a TypeError ("missing ... required ... argument")
Call(params, args, kwargs) ==
    IF \/ Unbindable(params, args, kwargs)
       \/ \E i \in 1..Len(params) :
             /\ i \notin Bindable(params, args, kwargs)
             /\ ~HasDefault(params, i)
    THEN Outcome("TypeError", <<>>)
    ELSE Outcome("", BoundArguments_apply_defaults(
                         params,
                         [n \in {params[i].name :
                                    i \in Bindable(params, args, kwargs)} |->
                             Given_(params, args, kwargs,
                                    CHOOSE i \in 1..Len(params) :
                                        params[i].name = n)]))

\* func(**bound.arguments) in _exec: every entry of bound.arguments is passed
\* as a keyword, the tuple of *args and the dict of **kwargs too
CallBound(params, arguments) == Call(params, <<>>, arguments)

\* bound.arguments after the provider loop of _exec: every parameter that has
\* no value yet gets what self.provide(int) returns, unless that is None
Provided(params, arguments, cmap) ==
    [n \in DOMAIN arguments
            \cup {params[i].name : i \in {j \in 1..Len(params) :
                                            provide(Plain("int"), cmap).result # None}} |->
        IF n \in DOMAIN arguments THEN arguments[n]
        ELSE provide(Plain("int"), cmap).result]

\* _exec of store.inject(fn) for a function with the parameters params, all
\* annotated int; b is what bind_partial gave
exec_bound(params, b, cmap) ==
    IF b.raised # "" THEN b
    ELSE CallBound(params,
                   Provided(params,
                            BoundArguments_apply_defaults(params, b.arguments),
                            cmap))

\* a parameter is not in bound.arguments after apply_defaults, so that
\* self.provide is called and the memoized map is read
Looks_up(params, b) ==
    /\ b.raised = ""
    /\ \E i \in 1..Len(params) :
          params[i].name \notin DOMAIN BoundArguments_apply_defaults(params,
                                                                     b.arguments)

\* store.inject(fn)(*args, **kwargs), b being what bind_partial gives
CallingKinds(fn, args, kwargs, b) ==
    /\ provMap' = IF Looks_up(KindDef(fn), b) THEN ReadCache(provMap, providers)
                  ELSE provMap
    /\ last' = [NoLast EXCEPT
                  !.op = "call_kinds", !.fn = fn, !.supplied = args,
                  !.kwargs = kwargs,
                  !.injected = exec_bound(KindDef(fn), b,
                                          ReadCache(provMap, providers))]
    /\ UNCHANGED <<providers, processors, procMap, disposers, hist, instances,
                   heap, collected, wrappers>>

CallKinds(fn, args, kwargs) ==
    CallingKinds(fn, args, kwargs,
                 Signature_bind_partial(KindDef(fn), args, kwargs))

(***************************************************************************)
(* type_resolved_signature (src/src/in_n_out/_type_resolution.py) on plain *)
(* functions whose annotations are written as strings: 'int' names the     *)
(* class int, 'Unknown' names nothing.                                     *)
(***************************************************************************)
MaxParams == 2

\* the annotations as they are written
WrittenAnnotations == {Plain(Empty), Plain("'int'"), Plain("'Unknown'")}

\* resolve_single_type_hints(annotation) raises NameError
unresolvable(annotation) == annotation = Plain("'Unknown'")

\* resolve_single_type_hints(annotation)[0]
resolve_single_type_hints(annotation) ==
    CASE annotation = Plain("'int'") -> Plain("int")
      [] annotation = AnnotatedNone -> Plain(NoneType)
      [] OTHER -> annotation

\* resolve_type_hints(func) raises NameError: some annotation names nothing
resolve_type_hints_fails(sig) ==
    \/ \E i \in 1..Len(sig.parameters) : unresolvable(sig.parameters[i].annotation)
    \/ unresolvable(sig.return_annotation)

\* the exception of _resolve_params_one_by_one ("" for none): a required
\* parameter whose annotation names nothing, unless such parameters are
\* excluded
one_by_one_error(sig, exclude_unresolved_mandatory) ==
    IF \E i \in 1..Len(sig.parameters) :
          /\ unresolvable(sig.parameters[i].annotation)
          /\ sig.parameters[i].default = Empty
          /\ ~exclude_unresolved_mandatory
    THEN "NameError" ELSE ""

\* the hints of _resolve_params_one_by_one, put into the signature: what
\* resolves is resolved, what does not is kept as it is written
one_by_one(sig) ==
    Signature([i \in 1..Len(sig.parameters) |->
                  [sig.parameters[i] EXCEPT
                      !.annotation = resolve_single_type_hints(@)]],
              resolve_single_type_hints(sig.return_annotation))

\* type_resolved_signature(func, raise_unresolved_optional_args=...,
\* raise_unresolved_required_args=...) for a plain function with the
\* signature sig: the exception raised ("" for none) and the signature
\* returned
type_resolved_signature_raising(sig, raise_optional, raise_required) ==
    IF resolve_type_hints_fails(sig) /\ raise_optional
    THEN [raised |-> "NameError", sig |-> NoSignature]
    ELSE IF resolve_type_hints_fails(sig)
              /\ one_by_one_error(sig, ~raise_required) # ""
    THEN [raised |-> one_by_one_error(sig, ~raise_required), sig |-> NoSignature]
    ELSE [raised |-> "", sig |-> one_by_one(sig)]

\* type_resolved_signature(func, ...) is called; r is what it does
Resolving(sig, raise_optional, raise_required, r) ==
    /\ last' = [NoLast EXCEPT
                  !.op = "type_resolved_signature", !.sig = sig,
                  !.raise_optional = raise_optional,
                  !.raise_required = raise_required,
                  !.raised = r.raised # "",
                  !.error = [NoError EXCEPT !.type = r.raised],
                  !.resolved = r.sig]
    /\ UNCHANGED <<providers, processors, provMap, procMap, disposers, hist,
                   instances, heap, collected, wrappers>>

TypeResolvedSignature(sig, raise_optional, raise_required) ==
    Resolving(sig, raise_optional, raise_required,
              type_resolved_signature_raising(sig, raise_optional, raise_required))

(***************************************************************************)
(* The module-level functions (src/src/in_n_out/_global.py).  Each binds   *)
(* its arguments, selects a store and calls the Store method of its name.  *)
(***************************************************************************)
\* the store argument of a module-level function: a Store, a name, or None
StoreInstance(s) == [kind |-> "Store", name |-> <<>>, store |-> s]

StoreName(name) == [kind |-> "str", name |-> name, store |-> GLOBAL_STORE]

\* _store_or_global(store)
store_or_global(store) ==
    IF store.kind = "Store"
    THEN [raised |-> FALSE, store |-> store.store]
    ELSE IF lower(name_or_global(store.kind = "str", store.name))
               \in DOMAIN instances
    THEN [raised |-> FALSE,
          store |-> instances[lower(name_or_global(store.kind = "str",
                                                   store.name))]]
    ELSE [raised |-> TRUE, store |-> GLOBAL_STORE]

\* the parameters of the Store methods (self apart)
MethodParameters(fn) ==
    CASE fn = "register" -> {"providers", "processors"}
      [] fn \in {"iter_providers", "iter_processors"} -> {"type_hint"}
      [] fn = "inject_processors" ->
            {"func", "type_hint", "first_processor_only", "raise_exception"}

\* the parameters of the module-level functions
GlobalParameters(fn) ==
    CASE fn = "register" -> {"processors", "providers", "store"}
      [] fn \in {"iter_providers", "iter_processors"} -> {"type_hint", "store"}
      [] fn = "inject_processors" ->
            {"func", "hint", "first_processor_only", "raise_exception", "store"}

\* the keyword under which the store is passed, when one is
StoreKeyword(store) == IF store.kind = "None" THEN {} ELSE {"store"}

\* the exception of a module-level call before it reaches the method: a
\* keyword that is no parameter, or a name that is no store ("" for none)
Bound(fn, keywords, store) ==
    IF ~(keywords \subseteq GlobalParameters(fn)) THEN "TypeError"
    ELSE IF store_or_global(store).raised THEN "KeyError"
    ELSE ""

\* the record of the module-level call of fn
ModuleCall(fn, keywords, store) ==
    [NoLast EXCEPT
        !.op = fn, !.via = "module", !.keywords = keywords, !.selector = store,
        !.store = store_or_global(store).store,
        !.raised = Bound(fn, keywords, store) # "",
        !.error = [NoError EXCEPT !.type = Bound(fn, keywords, store)]]

\* a module-level call, whose record is called, raises before it reaches the
\* method
Refused(called) ==
    /\ called.raised
    /\ last' = called
    /\ UNCHANGED <<providers, processors, provMap, procMap, disposers, hist,
                   instances, heap, collected, wrappers>>

\* the fields of the store s
FieldsOf(s) == IF s = GLOBAL_STORE THEN GlobalFields ELSE heap[s]

\* the method has left the store s with the fields st, and the call is recorded
Delegated(s, st, called) ==
    /\ providers' = IF s = GLOBAL_STORE THEN st.providers ELSE providers
    /\ provMap' = IF s = GLOBAL_STORE THEN st.provMap ELSE provMap
    /\ processors' = IF s = GLOBAL_STORE THEN st.processors ELSE processors
    /\ procMap' = IF s = GLOBAL_STORE THEN st.procMap ELSE procMap
    /\ heap' = IF s = GLOBAL_STORE THEN heap ELSE [heap EXCEPT ![s] = st]
    /\ last' = called
    /\ UNCHANGED <<disposers, hist, instances, collected, wrappers>>

\* store.register(...) reached from the module-level function, the handle
\* being dropped
Delegate_register(s, r, called) ==
    /\ Len(r.st.providers) + Len(r.st.processors) <= MaxReg
    /\ Delegated(s, r.st,
                 [called EXCEPT
                     !.raised = r.raised # "",
                     !.error = [NoError EXCEPT !.type = r.raised]])

\* in_n_out.register(providers=pv, processors=pc, store=store)
Global_register(pv, pc, store) ==
    \/ Refused([ModuleCall("register", StoreKeyword(store), store) EXCEPT
                   !.providers = pv, !.processors = pc])
    \/ /\ Bound("register", StoreKeyword(store), store) = ""
       /\ Delegate_register(
              store_or_global(store).store,
              InjectionContext(FieldsOf(store_or_global(store).store), pv, pc),
              [ModuleCall("register", StoreKeyword(store), store) EXCEPT
                  !.providers = pv, !.processors = pc])

\* list(store.iter_providers(type_hint)) reached from the module-level
\* function: cmap is the memoized map that the lookup reads
Delegate_iter_providers(s, type_hint, cmap, called) ==
    Delegated(s, [FieldsOf(s) EXCEPT !.provMap = cmap],
              [called EXCEPT !.hint = type_hint,
                             !.yielded = iter_type_map(type_hint, cmap)])

\* list(in_n_out.iter_providers(type_hint, store=store))
Global_iter_providers(type_hint, store) ==
    \/ Refused([ModuleCall("iter_providers", StoreKeyword(store), store) EXCEPT
                   !.hint = type_hint])
    \/ /\ Bound("iter_providers", StoreKeyword(store), store) = ""
       /\ Delegate_iter_providers(
              store_or_global(store).store, type_hint,
              ReadCache(FieldsOf(store_or_global(store).store).provMap,
                        FieldsOf(store_or_global(store).store).providers),
              ModuleCall("iter_providers", StoreKeyword(store), store))

\* list(store.iter_processors(type_hint)) reached from the module-level
\* function
Delegate_iter_processors(s, type_hint, cmap, called) ==
    Delegated(s, [FieldsOf(s) EXCEPT !.procMap = cmap],
              [called EXCEPT !.hint = type_hint,
                             !.yielded = iter_type_map(type_hint, cmap)])

\* list(in_n_out.iter_processors(type_hint, store=store))
Global_iter_processors(type_hint, store) ==
    \/ Refused([ModuleCall("iter_processors", StoreKeyword(store), store) EXCEPT
                   !.hint = type_hint])
    \/ /\ Bound("iter_processors", StoreKeyword(store), store) = ""
       /\ Delegate_iter_processors(
              store_or_global(store).store, type_hint,
              ReadCache(FieldsOf(store_or_global(store).store).procMap,
                        FieldsOf(store_or_global(store).store).processors),
              ModuleCall("iter_processors", StoreKeyword(store), store))

\* in_n_out.inject_processors(func, <keyword>=type_hint, store=store), the
\* type hint being passed under the name keyword
Global_inject_processors(func, keyword, type_hint, store) ==
    \/ Refused([ModuleCall("inject_processors",
                            {keyword} \cup StoreKeyword(store), store) EXCEPT
                   !.func = func,
                   !.given = [NotDecorating EXCEPT !.processors = TRUE,
                                                   !.type_hint = type_hint]])
    \/ /\ Bound("inject_processors", {keyword} \cup StoreKeyword(store),
                store) = ""
       /\ Hold(inject_processors(func, type_hint, FALSE, FALSE),
               [ModuleCall("inject_processors",
                           {keyword} \cup StoreKeyword(store), store) EXCEPT
                   !.func = func,
                   !.given = [NotDecorating EXCEPT !.processors = TRUE,
                                                   !.type_hint = type_hint]])

(***************************************************************************)
(* Calls made from several threads.  The store takes no lock: a lookup     *)
(* that rebuilds the memoized map reads the list, builds the map and       *)
(* stores it in separate steps, and a registration extends the list and    *)
(* deletes the memoized map in separate steps.  The steps of one thread    *)
(* may fall between the steps of another.                                  *)
(***************************************************************************)
RegistryOf(is_provider) == IF is_provider THEN providers ELSE processors

CacheOf(is_provider) == IF is_provider THEN provMap ELSE procMap

\* the step of a thread
Step(called) == [called EXCEPT !.via = "thread"]

\* cached_property.__get__ of _cached_provider_map or _cached_processor_map,
\* up to the return of _build_map: the attribute is absent, and the map is
\* built from the list as it is now
Lookup_build(is_provider, type_hint) ==
    /\ threads.lookup.pc = "idle"
    /\ ~CacheOf(is_provider).built
    /\ threads' = [threads EXCEPT
                     !.lookup = [pc |-> "built", is_provider |-> is_provider,
                                 hint |-> type_hint,
                                 map |-> build_map(RegistryOf(is_provider))]]
    /\ last' = Step([NoLast EXCEPT !.op = "_build_map", !.hint = type_hint])
    /\ UNCHANGED <<providers, processors, provMap, procMap, disposers, hist>>
    /\ UNCHANGED <<instances, heap, collected, defaults, held, decorators,
                   generator>>

\* the rest of cached_property.__get__ and of the lookup: the map that was
\* built is stored as the attribute, and the lookup yields from it
Lookup_store ==
    LET l == threads.lookup
    IN  /\ l.pc = "built"
        /\ provMap' = IF l.is_provider THEN l.map ELSE provMap
        /\ procMap' = IF l.is_provider THEN procMap ELSE l.map
        /\ threads' = [threads EXCEPT !.lookup = NoThreads.lookup]
        /\ last' = Step([NoLast EXCEPT
                           !.op = IF l.is_provider THEN "iter_providers"
                                  ELSE "iter_processors",
                           !.hint = l.hint,
                           !.yielded = iter_type_map(l.hint, l.map)])
        /\ UNCHANGED <<providers, processors, disposers, hist>>
        /\ UNCHANGED <<instances, heap, collected, defaults, held, decorators,
                       generator>>

\* Store._register_callbacks up to reg.extend(to_register): the list holds
\* the new entry, and the memoized map is as it was
Registration_extend(t, is_provider) ==
    LET arg == Hinted(Given(<<t>>), is_provider)
        r == register_callbacks(RegistryOf(is_provider), CacheOf(is_provider), arg)
    IN  /\ threads.registration.pc = "idle"
        /\ register_error(Given(<<t>>), is_provider) = ""
        /\ Len(providers) + Len(processors) < MaxReg
        /\ providers' = IF is_provider THEN r.reg ELSE providers
        /\ processors' = IF is_provider THEN processors ELSE r.reg
        /\ threads' = [threads EXCEPT
                         !.registration = [pc |-> "extended",
                                           is_provider |-> is_provider]]
        /\ last' = Step([NoLast EXCEPT
                           !.op = "extend",
                           !.providers = IF is_provider THEN Given(<<t>>)
                                         ELSE NotGiven,
                           !.processors = IF is_provider THEN NotGiven
                                          ELSE Given(<<t>>)])
        /\ UNCHANGED <<provMap, procMap, disposers, hist>>
        /\ UNCHANGED <<instances, heap, collected, defaults, held, decorators,
                       generator>>

\* the rest of Store._register_callbacks: delattr(self, cache_map), which
\* does nothing when the attribute is absent.  The handle is dropped.
Registration_invalidate ==
    LET g == threads.registration
    IN  /\ g.pc = "extended"
        /\ provMap' = IF g.is_provider THEN NoCache ELSE provMap
        /\ procMap' = IF g.is_provider THEN procMap ELSE NoCache
        /\ threads' = [threads EXCEPT !.registration = NoThreads.registration]
        /\ last' = Step([NoLast EXCEPT !.op = "register"])
        /\ UNCHANGED <<providers, processors, disposers, hist>>
        /\ UNCHANGED <<instances, heap, collected, defaults, held, decorators,
                       generator>>

(***************************************************************************)
(* Specifications.  Each draws the inputs of the operations from small     *)
(* sets.                                                                   *)
(***************************************************************************)
\* the values of the providers / processors argument of register(): None, or
\* one tuple
Args(tups) == {NotGiven} \cup {Given(<<t>>) : t \in tups}

\* Registrations under scopes: handles are kept and cleaned up in any
\* order, and the store is cleared.
ScopeProviders == {Tup("pOne", Plain("int"), 0)}

ScopeProcessors == {Tup("qA", Plain("int"), 0)}

Next ==
    \/ \E h \in Handles, pv \in Args(ScopeProviders),
          pc \in Args(ScopeProcessors) : Register(h, pv, pc)
    \/ \E h \in Handles : Cleanup(h)
    \/ Clear
    \/ IterProviders(Plain("int"))

Spec == Init /\ [][Next]_vars

\* Registrations only, and lookups of what they registered.
OrderProviders == {Tup(cb, Plain("int"), w) : cb \in {"pNone", "pOne"}, w \in Weights}

OrderProcessors ==
    {Tup("qA", Plain("int"), 0), Tup("qB", Plain("int"), 0),
     Tup("qA", Plain("int"), MaxWeight)}

NextOrder ==
    \/ \E pv \in Args(OrderProviders) : Register(Dropped, pv, NotGiven)
    \/ \E pc \in Args(OrderProcessors) : Register(Dropped, NotGiven, pc)
    \/ IterProviders(Plain("int"))
    \/ IterProcessors(Plain("int"))

SpecOrder == Init /\ [][NextOrder]_vars

\* Providers and provide().
ProvideProviders ==
    {Tup(cb, Plain("int"), 0) : cb \in {"pNone", "pZero", "pOne"}}
        \cup {Tup("pZero", Plain("int"), MaxWeight), Tup("pOne", Optional("int"), 0)}

NextProvide ==
    \/ \E pv \in Args(ProvideProviders) : Register(Dropped, pv, NotGiven)
    \/ \E t \in {Plain("int"), Optional("int"), Plain("str")} : Provide(t)

SpecProvide == Init /\ [][NextProvide]_vars

\* Providers, at most one registration of each at a time, one of them under a
\* scope; and calls of injected functions.
InjectProviders ==
    {Tup("pNone", Plain("int"), 0), Tup("pOne", Plain("int"), 0),
     Tup("pStr", Plain("str"), 0)}

NextInject ==
    \/ \E h \in {Dropped, 1}, t \in InjectProviders :
          /\ \A i \in 1..Len(providers) : providers[i].callback # t.callback
          /\ Register(h, Given(<<t>>), NotGiven)
    \/ Cleanup(1)
    \/ \E fn \in {"f", "g"}, npos \in 0..2, kw \in SUBSET {1, 2}, v \in {"arg", None} :
          CallInjected(fn, npos, kw, v)

SpecInject == Init /\ [][NextInject]_vars

\* Processors, process() and calls of functions wrapped by inject_processors.
ProcessProcessors ==
    {Tup(cb, Plain("int"), 0) : cb \in {"qA", "qB", "qBad"}}
        \cup {Tup("qBad", Plain("int"), MaxWeight)}

NextProcess ==
    \/ \E pc \in Args(ProcessProcessors) : Register(Dropped, NotGiven, pc)
    \/ \E th \in {NoHint, Plain("int")}, fpo \in BOOLEAN, rexc \in BOOLEAN :
          Process("1", th, fpo, rexc)
    \/ \E ret \in {None, "1"},
          src \in {<<NoHint, NoHint>>, <<Optional("int"), NoHint>>,
                   <<NoHint, Plain("int")>>},
          fpo \in BOOLEAN, rexc \in BOOLEAN :
          CallProcessed(ret, src[1], src[2], fpo, rexc)

SpecProcess == Init /\ [][NextProcess]_vars

\* Registrations under union and nullable hints; the union registrations are
\* made under a scope.
UnionProviders ==
    {Tup("pOne", Plain("int"), 0), Tup("pZero", Optional("int"), 0),
     Tup("pZero", Optional("int"), MaxWeight)}

UnionProcessors == {Tup("qA", Plain("int"), 0), Tup("qB", Optional("int"), 0)}

ScopedUnionProvider == Tup("pU", OptionalUnion2("int", "str"), 0)

ScopedUnionProcessor == Tup("qU", Union2("int", "str"), 0)

UnionQueries == {Plain("int"), Plain("str"), Optional("int")}

NextUnion ==
    \/ \E pv \in Args({ScopedUnionProvider}), pc \in Args({ScopedUnionProcessor}) :
          Register(1, pv, pc)
    \/ \E t \in UnionProviders :
          /\ Unregistered(providers, t.callback)
          /\ Register(Dropped, Given(<<t>>), NotGiven)
    \/ \E t \in UnionProcessors :
          /\ Unregistered(processors, t.callback)
          /\ Register(Dropped, NotGiven, Given(<<t>>))
    \/ Cleanup(1)
    \/ \E hint \in UnionQueries : IterProviders(hint)
    \/ \E hint \in UnionQueries : IterProcessors(hint)

SpecUnion == Init /\ [][NextUnion]_vars

\* Registrations for a class, its ancestors and an unrelated class, one of
\* each at a time, some under a scope; and lookups of classes and unions.
SubclassProviders ==
    {Tup("pObj", Plain("object"), 0), Tup("pInt", Plain("int"), MaxWeight),
     Tup("pBool", Plain("bool"), 0), Tup("pStr", Plain("str"), 0)}

SubclassQueries ==
    {Plain("bool"), Plain("int"), Plain("object"), Union2("bool", "str"),
     Union2("str", "bool")}

NextSubclass ==
    \/ \E h \in {Dropped, 1}, t \in SubclassProviders :
          /\ Unregistered(providers, t.callback)
          /\ Register(h, Given(<<t>>), NotGiven)
    \/ Cleanup(1)
    \/ \E hint \in SubclassQueries : IterProviders(hint)

SpecSubclass == Init /\ [][NextSubclass]_vars

\* Two stores, the global one and one made by Store.create, each with at
\* most one provider and one processor at a time; lookups and clear() on both.
StoresProviders == {Tup("pOne", Plain("int"), 0)}

StoresProcessors == {Tup("qA", Optional("int"), 0)}

StoresQueries == {Plain("int"), Plain("bool")}

NextStores ==
    \/ heap = <<>> /\ Create(<<"a">>)
    \/ \E pv \in Args(StoresProviders), pc \in Args(StoresProcessors) :
          /\ pv.given => providers = <<>>
          /\ pc.given => processors = <<>>
          /\ Register(Dropped, pv, pc)
    \/ \E s \in 1..Len(heap), pv \in Args(StoresProviders),
          pc \in Args(StoresProcessors) :
          /\ pv.given => heap[s].providers = <<>>
          /\ pc.given => heap[s].processors = <<>>
          /\ RegisterIn(s, pv, pc)
    \/ Clear
    \/ \E s \in 1..Len(heap) : ClearIn(s)
    \/ \E hint \in StoresQueries : IterProviders(hint)
    \/ \E hint \in StoresQueries : IterProcessors(hint)
    \/ \E s \in 1..Len(heap), hint \in StoresQueries : IterProvidersIn(s, hint)
    \/ \E s \in 1..Len(heap), hint \in StoresQueries : IterProcessorsIn(s, hint)

SpecStores == Init /\ [][NextStores]_vars

\* Decorating functions that have a required parameter with an unresolvable
\* or a missing annotation, and an unbound method, under every policy given
\* or left to the store; and calls of what was returned.
DecorateProviders == {Tup("pOne", Plain("int"), 0), Tup("pStr", Plain("object"), 0)}

AttributeValues(name) ==
    IF name = "guess_self" THEN {PyTrue, PyFalse} ELSE {"warn", "ignore"}

\* the function and the arguments on_unresolved_required_args,
\* on_unannotated_required_args and guess_self of each decoration: every
\* policy for the problem that the function has
Decorations ==
    {<<"u", p, None, None>> : p \in RaiseWarnReturnIgnore \cup {None}}
        \cup {<<"n", None, p, None>> : p \in RaiseWarnReturnIgnore \cup {None}}
        \cup {<<"method", None, p, g>> : p \in {None, "return"},
                                         g \in {None, PyTrue, PyFalse}}

NextDecorate ==
    \/ \E name \in Attributes : \E value \in AttributeValues(name) :
          SetAttribute(name, value)
    \/ \E c \in Decorations :
          Inject(Function(c[1], <<>>), TRUE, FALSE, c[2], c[3], c[4])
    \/ \E t \in DecorateProviders :
          /\ Unregistered(providers, t.callback)
          /\ Register(Dropped, Given(<<t>>), NotGiven)
    \/ \E npos \in 0..1, kw \in SUBSET {2}, v \in {"arg"} : CallHeld(npos, kw, v)

SpecDecorate == Init /\ [][NextDecorate]_vars

\* Generator functions: decorated with and without processors, called to make
\* a generator object, and the object advanced, while a provider of int is
\* registered under a scope and cleaned up.
GeneratorFunctions == {"g0", "g1"}

\* the function and the arguments providers, processors and
\* on_unannotated_required_args of each decoration
GeneratorDecorations ==
    {<<fn, TRUE, FALSE, None>> : fn \in GeneratorFunctions}
        \cup {<<fn, p, TRUE, None>> : fn \in GeneratorFunctions, p \in BOOLEAN}
        \cup {<<"g2", TRUE, TRUE, "return">>}

NextGenerator ==
    \/ \E c \in GeneratorDecorations :
          Inject(Function(c[1], <<>>), c[2], c[3], None, c[4], None)
    \/ \E fn \in GeneratorFunctions :
          InjectProcessors(Function(fn, <<>>), NoHint, FALSE, FALSE)
    \/ /\ Unregistered(providers, "pOne")
       /\ Register(1, Given(<<Tup("pOne", Plain("int"), 0)>>), NotGiven)
    \/ Cleanup(1)
    \/ \E npos \in 0..1 : CallGeneratorFunction(npos, {}, "arg")
    \/ Advance

SpecGenerator == Init /\ [][NextGenerator]_vars

\* Functions with and without parameters and return annotations, wrapped by
\* inject, by inject_processors and by one after the other, and called,
\* while a provider and processors are registered.
ComposeFunctions == {"a", "b", "c", "d"}

ComposeProcessors == {Tup("qA", Plain("int"), 0), Tup("qB", Plain("object"), 0)}

NextCompose ==
    \/ \E fn \in ComposeFunctions, processors_on \in BOOLEAN :
          Inject(Function(fn, <<>>), TRUE, processors_on, None, None, None)
    \/ \E fn \in ComposeFunctions :
          InjectProcessors(Function(fn, <<>>), NoHint, FALSE, FALSE)
    \/ /\ Len(held.layers) = 1
       /\ Outermost(held).kind = "processors"
       /\ Inject(held, TRUE, FALSE, None, None, None)
    \/ /\ held # NoFunction
       /\ \A k \in 1..Len(held.layers) : held.layers[k].kind = "inject"
       /\ last.op = "inject"
       /\ InjectProcessors(held, NoHint, FALSE, FALSE)
    \/ /\ Unregistered(providers, "pOne")
       /\ Register(Dropped, Given(<<Tup("pOne", Plain("int"), 0)>>), NotGiven)
    \/ \E t \in ComposeProcessors :
          /\ Unregistered(processors, t.callback)
          /\ Register(Dropped, NotGiven, Given(<<t>>))
    \/ \E npos \in 0..1 : CallHeld(npos, {}, "arg")

SpecCompose == Init /\ [][NextCompose]_vars

\* Functions with and without a return annotation, decorated by
\* inject_processors directly and through a decorator object that is used
\* more than once, and called, while processors are registered.
DecoratorFunctions == {"d", "r_str", "r_none", "r"}

DecoratorProcessors == {Tup("qA", Plain("int"), 0), Tup("qB", Plain("str"), 0)}

NextDecorator ==
    \/ \E type_hint \in {NoHint, Plain("int")} : MakeDecorator(type_hint)
    \/ \E c \in 1..Len(decorators), fn \in DecoratorFunctions :
          ApplyDecorator(c, Function(fn, <<>>))
    \/ \E fn \in DecoratorFunctions, type_hint \in {NoHint, Plain("int")} :
          InjectProcessors(Function(fn, <<>>), type_hint, FALSE, FALSE)
    \/ \E t \in DecoratorProcessors :
          /\ Unregistered(processors, t.callback)
          /\ Register(Dropped, NotGiven, Given(<<t>>))
    \/ CallHeld(0, {}, "arg")

SpecDecorator == Init /\ [][NextDecorator]_vars

\* Registrations that are valid and registrations that are not, through
\* register (one tuple, two tuples, providers and processors together) and
\* through the two mark decorators, and process with the processors that
\* were let in.
ValidateProviders ==
    {<<Tup("p_int", NoHint, 0)>>,
     <<Tup("pOne", NoHint, 0)>>,
     <<Tup("pOne", Plain("set()"), 0)>>,
     <<Tup("p_int", NoHint, 0), Tup("pOne", NoHint, 0)>>}

ValidateProcessors ==
    {<<Tup("q_int", NoHint, 0)>>,
     <<Tup("noargs", Plain("int"), 0)>>,
     <<Tup("1", Plain("int"), 0)>>,
     <<Tup("Obj()", Plain("int"), 0)>>,
     <<Tup("q_int", NoHint, 0), Tup("1", Plain("int"), 0)>>}

\* func and type_hint of the calls of mark_provider
MarkedProviders ==
    {<<"p_int", NoHint>>, <<"pOne", NoHint>>, <<"1", NoHint>>, <<"p_unk", NoHint>>,
     <<"pOne", Plain("set()")>>}

\* func and type_hint of the calls of mark_processor
MarkedProcessors ==
    {<<"q_int", NoHint>>, <<"qA", NoHint>>, <<"noargs", Plain("int")>>,
     <<"1", Plain("int")>>, <<"q_unk", NoHint>>}

NextValidate ==
    \/ \E pv \in {NotGiven} \cup {Given(items) : items \in ValidateProviders},
          pc \in {NotGiven} \cup {Given(items) : items \in ValidateProcessors} :
          Register(Dropped, pv, pc)
    \/ \E m \in MarkedProviders : MarkProvider(m[1], m[2], 0)
    \/ \E m \in MarkedProcessors : MarkProcessor(m[1], m[2], 0)
    \/ IterProviders(Plain("int"))
    \/ Process("1", NoHint, FALSE, FALSE)

SpecValidate == Init /\ [][NextValidate]_vars

\* The registry: stores are created, looked up and destroyed under names in
\* several spellings, and a created store is given a provider.
StoreNames ==
    {GLOBAL, <<"G", "l", "o", "b", "a", "l">>, <<"G", "L", "O", "B", "A", "L">>,
     <<"a">>, <<"A">>, <<>>}

NextRegistry ==
    \/ \E name \in StoreNames : Create(name)
    \/ \E name \in StoreNames : Destroy(name)
    \/ \E name \in StoreNames : GetStore(TRUE, name)
    \/ GetStore(FALSE, <<>>)
    \/ \E s \in 1..Len(heap) :
          /\ heap[s].providers = <<>>
          /\ RegisterIn(s, Given(<<Tup("pOne", Plain("int"), 0)>>), NotGiven)

SpecRegistry == Init /\ [][NextRegistry]_vars

\* Bound methods of one object registered next to functions, each callback
\* once; the object is collected at some point.
WeakProviders ==
    {Tup("mP", Union2("int", "str"), MaxWeight), Tup("pOne", Plain("int"), 0),
     Tup("pZero", Plain("int"), MaxWeight)}

WeakProcessors ==
    {Tup("mQ", Union2("int", "str"), 0), Tup("qA", Plain("int"), MaxWeight),
     Tup("qBad", Plain("int"), 0)}

NextWeak ==
    \/ \E t \in WeakProviders :
          /\ t.callback \in MethodCallbacks => ~collected
          /\ Unregistered(providers, t.callback)
          /\ Register(Dropped, Given(<<t>>), NotGiven)
    \/ \E t \in WeakProcessors :
          /\ t.callback \in MethodCallbacks => ~collected
          /\ Unregistered(processors, t.callback)
          /\ Register(Dropped, NotGiven, Given(<<t>>))
    \/ Collect
    \/ \E hint \in {Plain("int"), Plain("str")} : Provide(hint)
    \/ \E fpo \in BOOLEAN, rexc \in BOOLEAN : Process("1", NoHint, fpo, rexc)
    \/ \E hint \in {Plain("int"), Plain("str")} : IterProviders(hint)
    \/ \E hint \in {Plain("int"), Plain("str")} : IterProcessors(hint)

SpecWeak == Init /\ [][NextWeak]_vars

\* The module-level functions, on the global store and on a created one that
\* is given as an instance or by its name; the store "a" is created and
\* destroyed while its instance is held.
GlobalStoreArguments ==
    {NoStore, StoreName(<<"A">>)} \cup {StoreInstance(s) : s \in 1..Len(heap)}

GlobalHintKeywords == {"hint", "type_hint"}

NextGlobal ==
    \/ heap = <<>> /\ Create(<<"a">>)
    \/ Destroy(<<"a">>)
    \/ \E store \in GlobalStoreArguments :
          /\ ~store_or_global(store).raised =>
                FieldsOf(store_or_global(store).store).providers = <<>>
          /\ Global_register(Given(<<Tup("pOne", Plain("int"), 0)>>), NotGiven,
                             store)
    \/ \E store \in GlobalStoreArguments :
          Global_iter_providers(Plain("int"), store)
    \/ \E store \in GlobalStoreArguments :
          Global_iter_processors(Plain("int"), store)
    \/ \E keyword \in GlobalHintKeywords, store \in GlobalStoreArguments :
          Global_inject_processors(Function("a", <<>>), keyword, Plain("int"),
                                   store)
    \/ \E s \in 1..Len(heap) : ClearIn(s)
    \/ Clear

SpecGlobal == Init /\ [][NextGlobal]_vars

\* Registrations under handles, cleanups, clear, and bound methods whose
\* owner is collected and which are evicted when they are next invoked, with
\* lookups in between.
FreshProviders ==
    {Tup("mP", Union2("int", "str"), MaxWeight), Tup("pOne", Plain("int"), 0)}

FreshProcessors == {Tup("mQ", Plain("int"), 0)}

NextFresh ==
    \/ \E h \in Handles, t \in FreshProviders :
          /\ t.callback \in MethodCallbacks => ~collected
          /\ Unregistered(providers, t.callback)
          /\ \A g \in 1..(h - 1) : disposers[g] # <<>>
          /\ Register(h, Given(<<t>>), NotGiven)
    \/ \E t \in FreshProcessors :
          /\ ~collected
          /\ Unregistered(processors, t.callback)
          /\ Register(Dropped, NotGiven, Given(<<t>>))
    \/ \E h \in Handles : Cleanup(h)
    \/ Clear
    \/ Collect
    \/ Provide(Plain("str"))
    \/ Process("1", NoHint, FALSE, FALSE)
    \/ IterProviders(Plain("int"))
    \/ IterProcessors(Plain("int"))

SpecFresh == Init /\ [][NextFresh]_vars

\* Registration calls of one or two providers for int, each under a handle,
\* cleaned up in any order, with lookups in between.
CleanupOrderProviders ==
    {<<Tup("pOne", Plain("int"), 0)>>,
     <<Tup("pZero", Plain("int"), 0)>>,
     <<Tup("pOne", Plain("int"), 0), Tup("pZero", Plain("int"), 0)>>,
     <<Tup("pZero", Plain("int"), MaxWeight)>>}

NextCleanupOrder ==
    \/ \E h \in Handles, items \in CleanupOrderProviders :
          Register(h, Given(items), NotGiven)
    \/ \E h \in Handles : Cleanup(h)
    \/ IterProviders(Plain("int"))

SpecCleanupOrder == Init /\ [][NextCleanupOrder]_vars

\* Providers and processors that register and clean up on the store while
\* provide and process invoke them, next to callbacks that do nothing of
\* the kind; one provider and one processor are registered under handles.
ReentrantProviders ==
    {Tup("pClean", Plain("int"), MaxWeight), Tup("pReg", Plain("int"), 0),
     Tup("pOne", Plain("int"), 0)}

ReentrantProcessors ==
    {Tup("qClean", Plain("int"), MaxWeight), Tup("qReg", Plain("int"), 0)}

NextReentrant ==
    \/ \E h \in Handles :
          /\ Unregistered(providers, "pNone")
          /\ Register(h, Given(<<Tup("pNone", Plain("int"), 0)>>), NotGiven)
    \/ \E h \in Handles :
          /\ Unregistered(processors, "qA")
          /\ Register(h, NotGiven, Given(<<Tup("qA", Plain("int"), 0)>>))
    \/ \E t \in ReentrantProviders :
          /\ Unregistered(providers, t.callback)
          /\ Register(Dropped, Given(<<t>>), NotGiven)
    \/ \E t \in ReentrantProcessors :
          /\ Unregistered(processors, t.callback)
          /\ Register(Dropped, NotGiven, Given(<<t>>))
    \/ \E h \in Handles : Cleanup(h)
    \/ ProvideReentrant(Plain("int"))
    \/ ProcessReentrant("1")
    \/ IterProviders(Plain("int"))
    \/ IterProcessors(Plain("int"))

SpecReentrant == Init /\ [][NextReentrant]_vars

\* Functions with a parameter of each kind, wrapped by inject and called
\* with positional and keyword values, while a provider of int is or is not
\* registered.
KindFunctions == {"pk", "po", "ko", "va", "vk"}

KindArgs == UNION {[1..n -> {"1"}] : n \in 0..MaxArgs}

KindKeywords == {"a", "b", "k", "z"}

KindKwargs == UNION {[names -> {"0"}] : names \in SUBSET KindKeywords}

NextKinds ==
    \/ \E fn \in KindFunctions, args \in KindArgs, kwargs \in KindKwargs :
          CallKinds(fn, args, kwargs)
    \/ /\ Unregistered(providers, "pOne")
       /\ Register(Dropped, Given(<<Tup("pOne", Plain("int"), 0)>>), NotGiven)
    \/ Clear

SpecKinds == Init /\ [][NextKinds]_vars

\* type_resolved_signature on the functions of up to MaxParams parameters,
\* each required or defaulted and written without annotation, with one that
\* resolves or with one that does not, and likewise the return annotation,
\* under the four settings of the two flags.
ParamNames == <<"x", "y", "z", "w">>

\* the parameter lists that Python accepts: no required parameter after a
\* defaulted one
ResolveParameters ==
    {ps \in UNION {[1..n -> [name : {"x", "y", "z", "w"},
                             annotation : WrittenAnnotations,
                             default : {Empty, "dflt"}]] : n \in 0..MaxParams} :
        /\ \A i \in 1..Len(ps) : ps[i].name = ParamNames[i]
        /\ \A i \in 1..Len(ps), j \in 1..Len(ps) :
              (i < j /\ ps[i].default # Empty) => ps[j].default # Empty}

NextResolve ==
    \E ps \in ResolveParameters, returns \in WrittenAnnotations \cup {AnnotatedNone},
       raise_optional \in BOOLEAN, raise_required \in BOOLEAN :
        TypeResolvedSignature(Signature(ps, returns), raise_optional, raise_required)

SpecResolve == Init /\ [][NextResolve]_vars

\* A registration and a lookup whose steps interleave, among calls that run
\* from start to end.
ThreadProviders == {Tup("pOne", Plain("int"), 0), Tup("pNone", Plain("int"), MaxWeight)}

ThreadProcessors == {Tup("qA", Plain("int"), 0)}

NextThreads ==
    \/ \E t \in ThreadProviders :
          /\ Unregistered(providers, t.callback)
          /\ Registration_extend(t, TRUE)
    \/ \E t \in ThreadProcessors :
          /\ Unregistered(processors, t.callback)
          /\ Registration_extend(t, FALSE)
    \/ Registration_invalidate
    \/ \E is_provider \in BOOLEAN : Lookup_build(is_provider, Plain("int"))
    \/ Lookup_store
    \/ \E t \in ThreadProviders :
          /\ Unregistered(providers, t.callback)
          /\ Register(Dropped, Given(<<t>>), NotGiven)
    \/ Clear
    \/ IterProviders(Plain("int"))
    \/ IterProcessors(Plain("int"))

SpecThreads == Init /\ [][NextThreads]_vars

(***************************************************************************)
(* Properties.  What a lookup is expected to yield is stated here from the *)
(* registry lists themselves, not from the memoized maps.                  *)
(***************************************************************************)
\* the positions of reg that answer for type t
Matching(reg, t) == {k \in 1..Len(reg) : reg[k].origin = t}

\* position j of reg is yielded before position k: heavier, or as heavy and
\* registered earlier
YieldedBefore(reg, j, k) ==
    \/ reg[j].weight > reg[k].weight
    \/ reg[j].weight = reg[k].weight /\ j < k

\* the position of S that is yielded first
FirstOf(reg, S) == CHOOSE k \in S : \A j \in S \ {k} : YieldedBefore(reg, k, j)

\* what provide() is expected to return for the plain type t
ExpectedProvided(t) ==
    LET S == {k \in Matching(providers, t) : Ret(providers[k].callback) # None}
    IN  IF S = {} THEN None ELSE Ret(providers[FirstOf(providers, S)].callback)

\* the callbacks of reg for type t with weight w, in list order
OfWeight(reg, t, w) ==
    Callbacks(SelectSeq(reg, LAMBDA e : e.origin = t /\ e.weight = w))

\* ... for the weights w, w - 1, ..., 0 in turn
RECURSIVE DescendingFrom(_, _, _)
DescendingFrom(reg, t, w) ==
    IF w < 0 THEN <<>> ELSE OfWeight(reg, t, w) \o DescendingFrom(reg, t, w - 1)

IsPrefix(a, b) == Len(a) <= Len(b) /\ a = SubSeq(b, 1, Len(a))

Called(op) == last.op = op /\ last.supplied # <<>>

C3_CallTimeProviders ==
    Called("call") =>
        \A i \in 1..Len(last.supplied) :
            last.lookups[i].called =>
                last.lookups[i].provided =
                    ExpectedProvided(Parameters(last.fn)[i].annotation.args[1])

\* after a cleanup, a call finds no value for its int parameter although
\* another provider is still registered
C3_Witness ==
    /\ Called("call")
    /\ ~hist.onlyRegs
    /\ last.lookups[1].called
    /\ last.lookups[1].provided = None
    /\ last.raised
    /\ Len(providers) > 0

\* C4: provide(T) invokes the providers that iter_providers(T) yields, in that
\* order, up to and including the first whose result is not None, and returns
\* that result (0 is a result); it returns None when there is none.
C4_FirstNotNone ==
    last.op = "provide" =>
        LET hits == {k \in 1..Len(last.yielded) : Ret(last.yielded[k]) # None}
        IN  IF hits = {}
            THEN last.invoked = last.yielded /\ last.result = None
            ELSE LET first == CHOOSE k \in hits : \A j \in hits : k <= j
                 IN  /\ last.invoked = SubSeq(last.yielded, 1, first)
                     /\ last.result = Ret(last.yielded[first])

\* provide skips a provider that returns None, returns the 0 of the second,
\* and does not invoke the third
C4_Witness ==
    /\ last.op = "provide"
    /\ Len(last.yielded) = 3
    /\ last.invoked = <<"pNone", "pZero">>
    /\ last.result = "0"

\* C5: on a store where only registrations have been made, iter_providers(T)
\* and iter_processors(T) yield the callbacks registered for T by descending
\* weight, those of equal weight in registration order, and a callback once
\* per registration.
C5_WeightOrder ==
    /\ (last.op = "iter_providers" /\ hist.onlyRegs
          /\ Matching(providers, last.hint.args[1]) # {}) =>
            last.yielded = DescendingFrom(providers, last.hint.args[1], MaxWeight)
    /\ (last.op = "iter_processors" /\ hist.onlyRegs
          /\ Matching(processors, last.hint.args[1]) # {}) =>
            last.yielded = DescendingFrom(processors, last.hint.args[1], MaxWeight)

\* three processors are yielded: two of equal weight registered first, and a
\* heavier one registered last
C5_Witness ==
    /\ last.op = "iter_processors"
    /\ hist.onlyRegs
    /\ Len(processors) = 3
    /\ Len(last.yielded) = 3
    /\ processors[1].weight = processors[2].weight
    /\ processors[1].callback # processors[2].callback
    /\ processors[3].weight > processors[1].weight

\* the number of entries a handle added to the list of one role
Added(ds, is_provider) ==
    LET idx == {i \in 1..Len(ds) : ds[i].is_provider = is_provider}
    IN  IF idx = {} THEN 0 ELSE Len(ds[CHOOSE i \in idx : TRUE].to_register)

Count(reg, e) == Cardinality({k \in 1..Len(reg) : reg[k] = e})

\* C6: cleaning up a handle (cleanup(), or leaving its with-scope, however the
\* body ended) removes every entry its registration call added; when this
\* happens under scope discipline - everything registered later is cleaned up
\* already, and since the call there was no clear() and no cleanup of an older
\* handle - the provider and processor counts return to their values before
\* the call.  Cleaning up the same handle again changes nothing.
C6_CleanupRestoresCounts ==
    [][last'.op = "cleanup" =>
         LET h == last'.h
             ds == disposers[h]
         IN  /\ disposers'[h] = <<>>
             /\ ds = <<>> =>
                   UNCHANGED <<providers, processors, provMap, procMap, disposers>>
             /\ (ds # <<>> /\ hist.scoped[h]) =>
                   /\ Len(providers') = Len(providers) - Added(ds, TRUE)
                   /\ Len(processors') = Len(processors) - Added(ds, FALSE)
             /\ (ds # <<>> /\ hist.scoped[h] /\ After(hist.scopes, h) = {}) =>
                   /\ Len(providers') = hist.before[h].prov
                   /\ Len(processors') = hist.before[h].proc]_vars

\* the innermost live handle has been cleaned up, and entries registered before
\* it are still in both lists
C6_Witness ==
    /\ last.op = "cleanup"
    /\ last.live
    /\ last.nested
    /\ Len(providers) > 0
    /\ Len(processors) > 0

\* the handles other than h that are live and whose entries nothing has
\* removed: no clear() and no cleanup of an older handle since they registered
Untouched(h) == {g \in Handles \ {h} : disposers[g] # <<>> /\ hist.scoped[g]}

\* the entries that the handles of G added to the list of one role
EntriesOfHandles(G, is_provider) ==
    {<<g, i, j>> \in G \X (1..2) \X (1..MaxReg) :
        /\ i <= Len(disposers[g])
        /\ disposers[g][i].is_provider = is_provider
        /\ j <= Len(disposers[g][i].to_register)}

\* C7, as stated: cleaning up a handle leaves every entry added by any other
\* registration call registered, whatever happened in between, clear()
\* included.
C7_Original ==
    [][last'.op = "cleanup" =>
         \A is_provider \in BOOLEAN :
             LET others == EntriesOfHandles(Untouched(last'.h), is_provider)
                 reg == IF is_provider THEN providers' ELSE processors'
             IN  \A x \in others :
                     LET e == disposers[x[1]][x[2]].to_register[x[3]]
                     IN  Count(reg, e) >=
                            Cardinality({y \in others :
                                disposers[y[1]][y[2]].to_register[y[3]] = e})]_vars

\* a process() call ran (directly, or inside a wrapped function)
Processed == last.op \in {"process", "call_processed"} /\ last.nprocess = 1

\* C8, as stated: a function wrapped by inject_processors never routes a None
\* result to a processor, routes every other result through process() once,
\* and returns the function's result whatever the processors do.
C8_Original ==
    last.op = "call_processed" =>
        /\ last.arg = None => (last.nprocess = 0 /\ last.invoked = <<>>)
        /\ last.arg # None => last.nprocess = 1
        /\ ~last.raised
        /\ last.result = last.arg

\* C8, amended: ... and returns the function's result unchanged unless
\* raise_exception is true and a processor raises; then, and only then, that
\* exception propagates to the caller instead.
C8_Amended ==
    last.op = "call_processed" =>
        /\ last.arg = None => (last.nprocess = 0 /\ last.invoked = <<>>)
        /\ last.arg # None => last.nprocess = 1
        /\ last.raised <=>
              (last.raise_exception
                 /\ \E k \in 1..Len(last.invoked) : Raises(last.invoked[k]))
        /\ ~last.raised => last.result = last.arg

\* a wrapped function returns 1 although a processor raised and was warned
\* about and another one ran
C8_Witness ==
    /\ last.op = "call_processed"
    /\ last.arg = "1"
    /\ last.result = "1"
    /\ ~last.raised
    /\ last.warned # <<>>
    /\ Len(last.invoked) >= 2

\* C9: in process(), when raise_exception is true the exception of a processor
\* propagates at once and no later processor is invoked; when it is false the
\* exception is warned about, none escapes, and (unless first_processor_only)
\* every matching processor is invoked once, in order.
C9_RaiseOrWarn ==
    Processed =>
        LET bad == {k \in 1..Len(last.yielded) : Raises(last.yielded[k])}
        IN  /\ IsPrefix(last.invoked, last.yielded)
            /\ last.raise_exception =>
                  /\ last.warned = <<>>
                  /\ last.raised => Raises(last.invoked[Len(last.invoked)])
                  /\ \A k \in 1..(Len(last.invoked) - 1) : ~Raises(last.invoked[k])
                  /\ ~last.first_processor_only =>
                        /\ last.raised <=> bad # {}
                        /\ ~last.raised => last.invoked = last.yielded
            /\ ~last.raise_exception =>
                  /\ ~last.raised
                  /\ last.warned = SelectSeq(last.invoked, Raises)
                  /\ ~last.first_processor_only => last.invoked = last.yielded

\* the first of three processors raises, is warned about, and the other two
\* are still invoked
C9_Witness ==
    /\ last.op = "process"
    /\ ~last.raise_exception
    /\ ~last.first_processor_only
    /\ Len(last.invoked) = 3
    /\ Raises(last.invoked[1])
    /\ last.warned = <<last.invoked[1]>>

\* the type whose processors a process() call looks up
ProcessedType == IF last.hint = NoHint THEN TypeOf(last.arg) ELSE last.hint.args[1]

\* C10: with first_processor_only, process() invokes at most one processor:
\* the first in iteration order (heaviest, then earliest registered), whether
\* it succeeds or raises.
C10_FirstOnly ==
    (Processed /\ last.first_processor_only) =>
        LET S == Matching(processors, ProcessedType)
        IN  IF S = {} THEN last.invoked = <<>>
            ELSE last.invoked = <<processors[FirstOf(processors, S)].callback>>

\* the first processor raises and is warned about, and the second one, which
\* also matches, is not invoked
C10_Witness ==
    /\ last.op = "process"
    /\ last.first_processor_only
    /\ ~last.raise_exception
    /\ Len(last.yielded) >= 2
    /\ last.invoked = <<"qBad">>
    /\ last.warned = <<"qBad">>

Range(seq) == {seq[i] : i \in 1..Len(seq)}

\* the last operation was a lookup; the list it looked in
IterStep == last.op \in {"iter_providers", "iter_processors"}

Queried == IF last.op = "iter_providers" THEN providers ELSE processors

\* the members of a hint other than None
NonNone(hint) == Range(hint.args) \ {NoneType}

\* the callbacks of the entries of reg at the positions S
CallbacksAt(reg, S) == {reg[k].callback : k \in S}

\* C11: a callback registered under a union hint has one entry per member of
\* the union other than None, is yielded by a query for each such member and,
\* when nothing else is registered, is the only callback yielded; once that
\* registration is cleaned up no query yields it.
C11_UnionRegistration ==
    IterStep =>
        LET is_provider == last.op = "iter_providers"
            tup == IF is_provider THEN ScopedUnionProvider ELSE ScopedUnionProcessor
            live == HasDisposer(disposers[1], is_provider)
            mine == {k \in 1..Len(Queried) : Queried[k].callback = tup.callback}
        IN  /\ live =>
                  /\ {Queried[k].origin : k \in mine} = NonNone(tup.type_hint)
                  /\ Cardinality(mine) = Cardinality(NonNone(tup.type_hint))
            /\ (live /\ NonNone(last.hint) \subseteq NonNone(tup.type_hint)) =>
                  tup.callback \in Range(last.yielded)
            /\ (live /\ mine = 1..Len(Queried)) => last.yielded = <<tup.callback>>
            /\ ~live => /\ mine = {}
                        /\ tup.callback \notin Range(last.yielded)

\* the union registration, made again after a cleanup, is the only one and
\* answers a query for str
C11_Witness ==
    /\ last.op = "iter_providers"
    /\ last.hint = Plain("str")
    /\ last.yielded = <<"pU">>
    /\ Len(providers) = 2
    /\ ~hist.onlyRegs

\* C12, as stated: when a callback registered under plain T and one registered
\* under Optional[T] are both in the store, a query for Optional[T] yields
\* the former before the latter, in whichever order they were registered.
C12_Original ==
    (IterStep /\ last.hint = Optional("int")) =>
        \A j, k \in Matching(Queried, "int") :
            (~Queried[j].hint_optional /\ Queried[k].hint_optional) =>
                \E a, b \in 1..Len(last.yielded) :
                    /\ a < b
                    /\ last.yielded[a] = Queried[j].callback
                    /\ last.yielded[b] = Queried[k].callback

\* C13: the nullable wrapper restricts matching in neither direction: a query
\* for T and a query for Optional[T] both yield every callback registered
\* for T, under plain T or under Optional[T] alike, and nothing else.
C13_OptionalIgnored ==
    (IterStep /\ Cardinality(NonNone(last.hint)) = 1) =>
        LET t == CHOOSE m \in NonNone(last.hint) : TRUE
        IN  /\ Range(last.yielded) = CallbacksAt(Queried, Matching(Queried, t))
            /\ Len(last.yielded) = Cardinality(Matching(Queried, t))

\* a query for plain int yields a processor registered under Optional[int]
\* along with one registered under int
C13_Witness ==
    /\ last.op = "iter_processors"
    /\ last.hint = Plain("int")
    /\ Range(last.yielded) = {"qA", "qB"}
    /\ \E k \in 1..Len(processors) :
          processors[k].callback = "qB" /\ processors[k].hint_optional

\* a is a proper ancestor of b in the class hierarchy
Ancestor(a, b) == (a = "object" /\ b # "object") \/ (a = "int" /\ b = "bool")

\* the positions of reg registered for a proper ancestor of t
AncestorsIn(reg, t) == {k \in 1..Len(reg) : Ancestor(reg[k].origin, t)}

\* the origin of the earliest entry of reg registered for an ancestor of t
EarliestAncestor(reg, t) ==
    reg[CHOOSE k \in AncestorsIn(reg, t) : \A j \in AncestorsIn(reg, t) : k <= j].origin

\* C14, as stated: a callback registered for A is yielded by a query for any
\* subclass B of A that has no exact registration, and a callback registered
\* for B is never yielded by a query for its ancestor A.
C14_Original ==
    (last.op = "iter_providers" /\ ~is_union(last.hint)) =>
        LET t == last.hint.args[1]
        IN  /\ Matching(providers, t) = {} =>
                  \A k \in AncestorsIn(providers, t) :
                      providers[k].callback \in Range(last.yielded)
            /\ \A k \in 1..Len(providers) :
                  Ancestor(t, providers[k].origin) =>
                      providers[k].callback \notin Range(last.yielded)

\* C14, amended: a callback registered for A is yielded by a query for a
\* subclass B of A that has no exact registration when A is the ancestor of B
\* registered earliest in the store's list; a callback registered for B is
\* never yielded by a query for its ancestor A.
C14_Amended ==
    (last.op = "iter_providers" /\ ~is_union(last.hint)) =>
        LET t == last.hint.args[1]
        IN  /\ Matching(providers, t) = {} =>
                  \A k \in AncestorsIn(providers, t) :
                      providers[k].origin = EarliestAncestor(providers, t) =>
                          providers[k].callback \in Range(last.yielded)
            /\ \A k \in 1..Len(providers) :
                  Ancestor(t, providers[k].origin) =>
                      providers[k].callback \notin Range(last.yielded)

\* a query for bool, which has no registration of its own, is answered by the
\* provider registered for int, while a provider for str is registered too
C14_Witness ==
    /\ last.op = "iter_providers"
    /\ last.hint = Plain("bool")
    /\ last.yielded = <<"pInt">>
    /\ Len(providers) = 2
    /\ \E k \in 1..Len(providers) : providers[k].callback = "pStr"

\* some entry of reg answers for t: exactly, or as an ancestor
Answered(reg, t) == Matching(reg, t) # {} \/ AncestorsIn(reg, t) # {}

\* the members of the queried hint, in order, other than None
Members(hint) == SelectSeq(hint.args, LAMBDA a : a # NoneType)

\* C15: a lookup yields the callbacks of exactly one registered origin, or
\* nothing when no member of the queried hint is answered for.  The origin is
\* that of the first member, in order, that is answered for: the member itself
\* when it has an exact registration, else one of its ancestors.  Callbacks
\* registered for an ancestor of an exactly registered member, or for a later
\* member, are not yielded.
C15_OneOrigin ==
    last.op = "iter_providers" =>
        LET ms == Members(last.hint)
            hits == {i \in 1..Len(ms) : Answered(providers, ms[i])}
        IN  IF hits = {} THEN last.yielded = <<>>
            ELSE LET m == ms[CHOOSE i \in hits : \A j \in hits : i <= j]
                 IN  \E o \in Classes :
                         /\ Range(last.yielded) = CallbacksAt(providers, Matching(providers, o))
                         /\ Len(last.yielded) = Cardinality(Matching(providers, o))
                         /\ Matching(providers, o) # {}
                         /\ IF Matching(providers, m) # {} THEN o = m ELSE Ancestor(o, m)

\* a query for Union[bool, str] is answered by the ancestor int of its first
\* member alone, although str has an exact registration
C15_Witness ==
    /\ last.op = "iter_providers"
    /\ last.hint = Union2("bool", "str")
    /\ last.yielded = <<"pInt">>
    /\ Matching(providers, "str") # {}
    /\ Matching(providers, "bool") = {}

\* C16: when the queried type has no exact registration and several
\* registered ancestors match it, the lookup yields exactly the callbacks of
\* the ancestor whose first entry in the store's list, as it is now, comes
\* earliest, whatever the weights.
C16_EarliestAncestor ==
    (last.op = "iter_providers" /\ ~is_union(last.hint)) =>
        LET t == last.hint.args[1]
        IN  (Matching(providers, t) = {} /\ AncestorsIn(providers, t) # {}) =>
                LET o == EarliestAncestor(providers, t)
                IN  /\ Range(last.yielded) = CallbacksAt(providers, Matching(providers, o))
                    /\ Len(last.yielded) = Cardinality(Matching(providers, o))

\* after a cleanup, a query for bool is answered by object, now the earliest
\* registered ancestor, and not by the heavier provider for int
C16_Witness ==
    /\ last.op = "iter_providers"
    /\ last.hint = Plain("bool")
    /\ last.yielded = <<"pObj">>
    /\ ~hist.onlyRegs
    /\ \E k \in 1..Len(providers) :
          providers[k].callback = "pInt" /\ providers[k].weight > 0

\* what the queries of a store with these fields yield, providers first
LookupResults(st) ==
    [hint \in StoresQueries |->
        <<iter_type_map(hint, ReadCache(st.provMap, st.providers)),
          iter_type_map(hint, ReadCache(st.procMap, st.processors))>>]

\* C17: after clear() on a store, its iter_providers and iter_processors
\* yield nothing for every type, whatever was registered and whether or not
\* its memoized maps had been built; the registry and the registrations,
\* memoized maps and lookup results of every other store are unchanged.
C17_ClearOneStore ==
    [][last'.op = "clear" =>
         LET s == last'.store
             cleared == IF s = GLOBAL_STORE THEN GlobalFields' ELSE heap'[s]
         IN  /\ \A hint \in StoresQueries : LookupResults(cleared)[hint] = <<<<>>, <<>>>>
             /\ cleared.providers = <<>> /\ cleared.processors = <<>>
             /\ instances' = instances
             /\ Len(heap') = Len(heap)
             /\ \A t \in 1..Len(heap) \ {s} :
                    /\ heap'[t] = heap[t]
                    /\ LookupResults(heap'[t]) = LookupResults(heap[t])
             /\ s # GLOBAL_STORE =>
                    /\ GlobalFields' = GlobalFields
                    /\ LookupResults(GlobalFields') = LookupResults(GlobalFields)]_vars

\* a created store whose maps were both built from registrations has been
\* cleared, and the global store still holds its registrations and its maps
C17_Witness ==
    /\ last.op = "clear"
    /\ last.store # GLOBAL_STORE
    /\ last.cached
    /\ BothCached(GlobalFields)
    /\ providers # <<>>
    /\ processors # <<>>

\* the callbacks that reg holds
Registered(reg) == {reg[k].callback : k \in 1..Len(reg)}

\* C18: once the owner of a bound method is collected, a provide or process
\* that reaches its forwarding callback gets None from it and goes on to the
\* next callback, removes every entry of that callback and no other entry from
\* the store's list and deletes the memoized map; a callback that is not in
\* the list is yielded by no lookup.
C18_CollectedMethodRemoved ==
    [][(last'.op \in {"provide", "process", "iter_providers", "iter_processors"}) =>
         LET is_provider == last'.op \in {"provide", "iter_providers"}
             reg == IF is_provider THEN providers ELSE processors
             regAfter == IF is_provider THEN providers' ELSE processors'
             cacheAfter == IF is_provider THEN provMap' ELSE procMap'
             gone == {c \in MethodCallbacks : collected /\ c \in Range(last'.invoked)}
         IN  /\ Range(last'.yielded) \subseteq Registered(reg)
             /\ regAfter = SelectSeq(reg, LAMBDA e : e.callback \notin gone)
             /\ Registered(regAfter) \cap gone = {}
             /\ gone # {} => ~cacheAfter.built
             /\ (last'.op = "provide" /\ gone # {}) =>
                    LET n == Len(last'.invoked)
                    IN  /\ last'.result # "hi"
                        /\ last'.invoked[n] \in gone => last'.result = None
                        /\ \A i \in 1..(n - 1) :
                               last'.invoked[i] \in gone => last'.yielded[i + 1] = last'.invoked[i + 1]
             /\ (last'.op = "process" /\ gone # {}) =>
                    /\ \A i \in 1..Len(last'.warned) : last'.warned[i] \notin gone
                    /\ ~last'.first_processor_only => last'.invoked = last'.yielded]_vars

\* process() reached the forwarding callback of a collected object's method
\* after another processor: its two entries are gone, the other one is left
C18_Witness ==
    /\ last.op = "process"
    /\ collected
    /\ "mQ" \in Range(last.invoked)
    /\ Len(last.invoked) >= 2
    /\ "mQ" \notin Registered(processors)
    /\ processors # <<>>
    /\ ~procMap.built

\* the spellings of "global" among the names used
GlobalSpellings ==
    {<<"g", "l", "o", "b", "a", "l">>, <<"G", "l", "o", "b", "a", "l">>,
     <<"G", "L", "O", "B", "A", "L">>}

\* C19: the registry always holds the global store under "global", and it is
\* always the instance made at load time; create and destroy under any
\* spelling of "global" raise and leave the registry unchanged, and get_store
\* under any such spelling, or unnamed, returns that instance.
C19_GlobalStays ==
    /\ instances[GLOBAL] = GLOBAL_STORE
    /\ [][/\ GLOBAL \in DOMAIN instances'
          /\ instances'[GLOBAL] = GLOBAL_STORE
          /\ (last'.op \in {"create", "destroy"} /\ last'.name \in GlobalSpellings) =>
                /\ last'.raised
                /\ instances' = instances
                /\ heap' = heap
          /\ (last'.op = "get_store" /\ (~last'.named \/ last'.name \in GlobalSpellings)) =>
                /\ ~last'.raised
                /\ last'.store = GLOBAL_STORE]_vars

\* create("GLOBAL") has raised while another store is registered
C19_Witness ==
    /\ last.op = "create"
    /\ last.name = <<"G", "L", "O", "B", "A", "L">>
    /\ last.raised
    /\ <<"a">> \in DOMAIN instances
    /\ instances[GLOBAL] = GLOBAL_STORE

\* C20, as stated: for any name N other than "global", create(N) registers a
\* new, empty store; get_store under any spelling of N returns that instance
\* for as long as N is registered; a second create(N) raises and leaves the
\* registered instance and its registrations as they are.
C20_Original ==
    [][(last'.named /\ lower(last'.name) # GLOBAL) =>
         LET key == lower(last'.name)
         IN  /\ (last'.op = "create" /\ key \notin DOMAIN instances) =>
                   /\ ~last'.raised
                   /\ last'.store \notin {instances[k] : k \in DOMAIN instances}
                   /\ last'.store \notin 1..Len(heap)
                   /\ DOMAIN instances' = DOMAIN instances \cup {key}
                   /\ instances'[key] = last'.store
                   /\ heap'[last'.store] = EmptyStore
                   /\ \A k \in DOMAIN instances : instances'[k] = instances[k]
                   /\ \A t \in 1..Len(heap) : heap'[t] = heap[t]
             /\ (last'.op = "create" /\ key \in DOMAIN instances) =>
                   /\ last'.raised
                   /\ instances' = instances
                   /\ heap' = heap
             /\ (last'.op = "get_store" /\ key \in DOMAIN instances) =>
                   /\ ~last'.raised
                   /\ last'.store = instances[key]]_vars

\* C21, as stated: after destroy(N) has removed a store, get_store(N) and a
\* second destroy(N) raise and leave the registry as it is, and create(N)
\* registers a new, empty instance that is not the destroyed one and holds
\* none of its providers and processors.
C21_Original ==
    [][(last.op = "destroy" /\ ~last.raised /\ last'.named /\ last'.name = last.name) =>
         /\ last'.op \in {"get_store", "destroy"} =>
               /\ last'.raised
               /\ instances' = instances
               /\ heap' = heap
         /\ last'.op = "create" =>
               /\ ~last'.raised
               /\ last'.store \notin 1..Len(heap)
               /\ instances'[lower(last'.name)] = last'.store
               /\ heap'[last'.store] = EmptyStore
               /\ \A t \in 1..Len(heap) : heap'[t] = heap[t]]_vars

EffectivePolicy(name) ==
    IF last.given[name] = None THEN defaults[name] ELSE last.given[name]

\* out is the wrapper that inject makes around func
IsInjectWrapper(out, func) ==
    /\ Len(out.layers) = Len(func.layers) + 1
    /\ out.fn = func.fn
    /\ Wrapped(out) = func
    /\ Outermost(out).kind = "inject"

\* C23, as stated: under "warn", for an unresolvable as for a missing
\* annotation of a required parameter, inject warns and returns the original
\* function, as "return" does without the warning.
C23_Original ==
    (/\ last.op = "inject"
     /\ last.given.providers
     /\ \/ /\ last.func.fn = "u"
           /\ EffectivePolicy("on_unresolved_required_args") = "warn"
        \/ /\ last.func.fn = "n"
           /\ EffectivePolicy("on_unannotated_required_args") = "warn") =>
        /\ ~last.raised
        /\ last.warnings # <<>>
        /\ last.out = last.func

\* C24: under "ignore" for the problem that the function has, inject emits
\* no warning and returns a new wrapper around the function; a call of the
\* wrapper looks up every parameter that the caller did not supply, leaves
\* alone those that the caller supplied, and when the resolvable parameter
\* has a value it fails only if the offending parameter (the second of u
\* and of n) was not supplied.
C24_Ignore ==
    /\ (/\ last.op = "inject"
        /\ last.given.providers
        /\ \/ /\ last.func.fn = "u"
              /\ EffectivePolicy("on_unresolved_required_args") = "ignore"
           \/ /\ last.func.fn = "n"
              /\ EffectivePolicy("on_unannotated_required_args") = "ignore") =>
           /\ ~last.raised
           /\ last.warnings = <<>>
           /\ last.out # last.func
           /\ IsInjectWrapper(last.out, last.func)
           /\ held = last.out
    /\ (/\ last.op = "call_held"
        /\ last.func.fn \in {"u", "n"}
        /\ last.func.layers # <<>>) =>
           /\ \A i \in 1..Len(last.supplied) :
                 /\ last.supplied[i] # Absent =>
                       /\ ~last.provided[1][i].called
                       /\ last.bound[i] = last.supplied[i]
                 /\ last.supplied[i] = Absent =>
                       /\ last.provided[1][i].called
                       /\ last.bound[i] =
                             IF last.provided[1][i].provided # None
                             THEN last.provided[1][i].provided ELSE Absent
           /\ (last.raised /\ last.bound[1] # Absent) => last.supplied[2] = Absent
           /\ (last.supplied[2] # Absent /\ last.bound[1] # Absent) =>
                 /\ last.ran
                 /\ ~last.raised
                 /\ last.result = last.bound[1]
           /\ last.raised =>
                 /\ ~last.ran
                 /\ last.error.type = "TypeError"
                 /\ last.error.after_injecting

\* n(i: int, x) was decorated under "ignore" and the wrapper is held
C24_Witness ==
    /\ last.op = "inject"
    /\ last.func.fn = "n"
    /\ last.given.on_unannotated_required_args = "ignore"
    /\ last.warnings = <<>>
    /\ IsInjectWrapper(held, last.func)
    /\ providers # <<>>

\* the guess_self that governs a decoration according to the claim: the
\* caller's when it is given, true or false, else the store's
GoverningGuessSelf ==
    IF last.given.guess_self = None THEN defaults.guess_self ELSE last.given.guess_self

\* the decoration returned a wrapper in whose signature self is annotated
\* with the class of the method
GuessedSelf ==
    /\ ~last.raised
    /\ IsInjectWrapper(last.out, last.func)
    /\ Outermost(last.out).sig.parameters[1].annotation = Plain(FunctionDef(last.func.fn).class)

\* C25, as stated: the guess_self of the store is used only when the caller
\* gives none; a value given by the caller, true or false, governs.
C25_Original ==
    (/\ last.op = "inject"
     /\ last.given.providers
     /\ last.func.fn = "method") =>
        (GuessedSelf <=> GoverningGuessSelf = PyTrue)

\* the generator object was made by a wrapper of inject
FromGexec == generator.status # "none" /\ generator.func.layers # <<>>

C27_Original ==
    FromGexec =>
       /\ (last.op = "call_generator" /\ ~last.raised) => generator.consulted = 1
       /\ (last.op = "next" /\ last.provided # <<>>) =>
             last.provided[1] =
                Lookups(Outermost(generator.func).sig.parameters,
                        apply_defaults(Outermost(generator.func).sig.parameters,
                                       generator.arguments),
                        build_map(generator.registered))

\* C28, as stated: inject_processors of a generator function, and inject
\* with processors=True of a generator function, with providers on or off,
\* raise at decoration time and return no function.
C28_Original ==
    (/\ last.op \in {"inject", "inject_processors"}
     /\ isgeneratorfunction(last.func)
     /\ last.given.processors) =>
        /\ last.raised
        /\ last.out = NoFunction

\* the three ways of giving the def fn both behaviours, with the attributes
\* of the store as they are: inject(f, providers=True, processors=True),
\* inject_processors(inject(f)) and inject(inject_processors(f))
Compositions(fn) ==
    LET f == Function(fn, <<>>)
    IN  << inject(f, TRUE, TRUE, None, None, None, defaults).out,
           inject_processors(inject(f, TRUE, FALSE, None, None, None, defaults).out,
                             NoHint, FALSE, FALSE).out,
           inject(inject_processors(f, NoHint, FALSE, FALSE).out,
                  TRUE, FALSE, None, None, None, defaults).out >>

RECURSIVE InvokedIn(_, _)
\* the callbacks invoked, in order, by the first k wrappers of a call
InvokedIn(did, k) ==
    IF k = 0 THEN <<>> ELSE InvokedIn(did, k - 1) \o did[k].invoked

RECURSIVE ProvidersInvokedIn(_, _, _)
\* the providers invoked, in order, for the first i parameters of the k-th
\* _exec of inject and for all those of the ones before it
ProvidersInvokedIn(provided, k, i) ==
    IF k = 0 THEN <<>>
    ELSE IF i = 0
         THEN ProvidersInvokedIn(provided, k - 1,
                                 IF k > 1 THEN Len(provided[k - 1]) ELSE 0)
         ELSE ProvidersInvokedIn(provided, k, i - 1) \o provided[k][i].invoked

\* what a caller and the callbacks see of a call
Observed(ex) ==
    [raised |-> ex.raised, result |-> ex.result,
     providers |-> ProvidersInvokedIn(ex.provided, Len(ex.provided),
                                      IF ex.provided = <<>> THEN 0
                                      ELSE Len(ex.provided[Len(ex.provided)])),
     processors |-> InvokedIn(ex.processed, Len(ex.processed))]

\* C29, as stated: inject(f, providers=True, processors=True),
\* inject_processors(inject(f)) and inject(inject_processors(f)) are
\* equivalent: a call returns the same value after invoking the same
\* providers and the same processors.
C29_Original ==
    (/\ last.op = "call_held"
     /\ \E k \in 1..3 : Compositions(last.func.fn)[k] = last.func) =>
        \A k \in 1..3 :
           Observed(Exec(Compositions(last.func.fn)[k], last.supplied,
                         ReadCache(provMap, providers), ReadCache(procMap, processors),
                         decorators))
              = Observed(last)

\* the type_hint that process() is to be given for a call of func decorated
\* by inject_processors with the argument type_hint, according to the claim:
\* NoHint stands for the runtime type of each result
SelectedHint(func, type_hint) ==
    IF type_hint # NoHint THEN type_hint
    ELSE IF has_return_annotation(func) THEN annotations_return(func)
    ELSE NoHint

\* C30, as stated: inject_processors looks processors up under the explicit
\* type_hint when one is given, else under the declared return annotation
\* of the function when it has one, else, at each call, under the runtime
\* type of the result.
C30_Original ==
    (/\ last.op = "call_held"
     /\ last.func.layers # <<>>
     /\ Outermost(last.func).kind = "processors"
     /\ last.processed # <<>>) =>
        last.processed[1].hint =
           SelectedHint(Wrapped(last.func),
                        IF Outermost(last.func).cell = 0
                        THEN Outermost(last.func).given
                        ELSE decorators[Outermost(last.func).cell].given)

(***************************************************************************)
(* Registration problems.                                                  *)
(***************************************************************************)
\* the callbacks above that cannot be called with one positional argument
NoPositional(obj) == obj \in {"noargs", "Obj()"}

\* the code object of obj declares no positional parameter and no *args
CodeTakesNone(obj) ==
    /\ CallbackDef(obj).code
    /\ CallbackDef(obj).co_argcount = 0
    /\ ~CallbackDef(obj).varargs

\* no type hint is given with the tuple and none can be inferred from its
\* callback
NothingToInfer(tup, is_provider) ==
    /\ tup.type_hint = NoHint
    /\ \/ CallbackDef(tup.callback).hints.raised # ""
       \/ is_provider /\ CallbackDef(tup.callback).hints.returns = NoHint
       \/ ~is_provider /\ CallbackDef(tup.callback).hints.first = NoHint

\* the hint given with the tuple is neither hashable nor usable in a subclass
\* check
Unregistrable(tup) ==
    \E k \in 1..Len(tup.type_hint.args) :
        tup.type_hint.args[k] \notin Classes /\ tup.type_hint.args[k] = "set()"

Items(arg) == {arg.items[k] : k \in 1..Len(arg.items)}

\* C31 (as stated): register raises at the call when a processor is not
\* callable or accepts no positional argument, when no hint is given and
\* none can be inferred, or when a hint is neither hashable nor usable in a
\* subclass check; so no processor that accepts no positional argument and
\* no such hint is ever registered and left to fail when it is looked up or
\* called.
C31_Original ==
    /\ (/\ last.op = "register"
        /\ \/ \E t \in Items(last.providers) :
                  NothingToInfer(t, TRUE) \/ Unregistrable(t)
           \/ \E t \in Items(last.processors) :
                    \/ ~CallbackDef(t.callback).callable
                    \/ NoPositional(t.callback)
                    \/ NothingToInfer(t, FALSE)
                    \/ Unregistrable(t))
          => last.raised
    /\ \A k \in 1..Len(processors) :
          /\ CallbackDef(processors[k].callback).callable
          /\ ~NoPositional(processors[k].callback)
          /\ processors[k].origin # "set()"
    /\ \A k \in 1..Len(providers) : providers[k].origin # "set()"

\* C31 (amended): the same, where a processor "accepts no positional
\* argument" when it has a code object and that code object declares no
\* positional parameter and no *args; a callable without a code object is
\* registered unchecked.
C31_Amended ==
    /\ (/\ last.op = "register"
        /\ \/ \E t \in Items(last.providers) :
                  NothingToInfer(t, TRUE) \/ Unregistrable(t)
           \/ \E t \in Items(last.processors) :
                    \/ ~CallbackDef(t.callback).callable
                    \/ CodeTakesNone(t.callback)
                    \/ NothingToInfer(t, FALSE)
                    \/ Unregistrable(t))
          => last.raised
    /\ \A k \in 1..Len(processors) :
          /\ CallbackDef(processors[k].callback).callable
          /\ ~CodeTakesNone(processors[k].callback)
          /\ processors[k].origin # "set()"
    /\ \A k \in 1..Len(providers) : providers[k].origin # "set()"

\* a register call was given a processor whose code object takes no
\* argument, and raised
C31_Witness ==
    /\ last.op = "register"
    /\ last.raised
    /\ \E t \in Items(last.processors) : CodeTakesNone(t.callback)
    /\ \A t \in Items(last.providers) : ~NothingToInfer(t, TRUE) /\ ~Unregistrable(t)

\* the one tuple of a call of mark_provider or mark_processor
Marked(l) ==
    IF l.op = "mark_provider" THEN l.providers.items[1] ELSE l.processors.items[1]

\* C32 (as stated): mark_provider(f) and mark_processor(f) always return f
\* itself; when f is not a valid callback for the role or no type hint can
\* be inferred, a warning is emitted instead of an exception and the two
\* lists of the store are left as they were.
C32_Original ==
    [][last'.op \in {"mark_provider", "mark_processor"}
          => /\ ~last'.raised
             /\ last'.out = Function(Marked(last').callback, <<>>)
             /\ (\/ NothingToInfer(Marked(last'), last'.op = "mark_provider")
                 \/ /\ last'.op = "mark_processor"
                    /\ \/ ~CallbackDef(Marked(last').callback).callable
                       \/ CodeTakesNone(Marked(last').callback))
                   => /\ last'.warnings # <<>>
                      /\ providers' = providers
                      /\ processors' = processors]_vars

\* C35 (as stated): a register call that raises leaves the provider list and
\* the processor list exactly as they were before the call, for a bulk
\* iterable with a later invalid item and for providers and processors
\* given together of which one is invalid.
C35_Original ==
    [][last'.op = "register" /\ last'.raised
          => providers' = providers /\ processors' = processors]_vars

(***************************************************************************)
(* The module-level functions.                                             *)
(***************************************************************************)
\* the fields of the store s after the step
FieldsAfter(s) ==
    IF s = GLOBAL_STORE
    THEN [providers |-> providers', processors |-> processors',
          provMap |-> provMap', procMap |-> procMap']
    ELSE heap'[s]

\* the store that the claim has the store argument select: the instance given,
\* else the store registered under the name given, else the global store
Selected(store) ==
    IF store.kind = "Store" THEN store.store
    ELSE IF store.kind = "str" /\ lower(store.name) \in DOMAIN instances
    THEN instances[lower(store.name)]
    ELSE GLOBAL_STORE

\* a module-level call names a store that is not registered
UnknownName(store) ==
    store.kind = "str" /\ lower(store.name) \notin DOMAIN instances

\* the module-level call recorded in l did in this step what the method of
\* its name does on the store s
AsMethod(l, s) ==
    /\ l.op = "register" =>
          /\ FieldsAfter(s) = InjectionContext(FieldsOf(s), l.providers,
                                               l.processors).st
          /\ l.error.type = InjectionContext(FieldsOf(s), l.providers,
                                             l.processors).raised
    /\ l.op = "iter_providers" =>
          /\ l.yielded = iter_type_map(l.hint, ReadCache(FieldsOf(s).provMap,
                                                         FieldsOf(s).providers))
          /\ FieldsAfter(s).providers = FieldsOf(s).providers
    /\ l.op = "iter_processors" =>
          /\ l.yielded = iter_type_map(l.hint, ReadCache(FieldsOf(s).procMap,
                                                         FieldsOf(s).processors))
          /\ FieldsAfter(s).processors = FieldsOf(s).processors
    /\ l.op = "inject_processors" =>
          /\ l.error.type = inject_processors(l.func, l.given.type_hint, FALSE,
                                              FALSE).raised
          /\ l.out = inject_processors(l.func, l.given.type_hint, FALSE,
                                       FALSE).out
          /\ held' = l.out

\* C33: every module-level function accepts the inputs of the Store method of
\* its name (and the store to select), and has the result and the effect of
\* that method on the selected store: the instance given, else the store
\* registered under the name given, else the global store; a name that is
\* not registered raises (KeyError).
C33_Original ==
    [][last'.via = "module" =>
          /\ last'.error.type = "KeyError" <=> UnknownName(last'.selector)
          /\ ~UnknownName(last'.selector)
                /\ last'.keywords \ {"store"} \subseteq MethodParameters(last'.op)
                => AsMethod(last', Selected(last'.selector))]_vars

(***************************************************************************)
(* The memoized maps.                                                      *)
(***************************************************************************)
\* C34: whatever registrations, cleanups, clears and evictions of collected
\* bound methods came before, a lookup that starts yields what is computed
\* from the list of the store as it is then: the memoized map is never stale.
C34_NeverStale ==
    [][/\ last'.op = "iter_providers" =>
             last'.yielded = iter_type_map(last'.hint, build_map(providers))
       /\ last'.op = "iter_processors" =>
             last'.yielded = iter_type_map(last'.hint, build_map(processors))]_vars

\* a lookup yields callbacks from a map that was rebuilt after a cleanup or a
\* clear, the owner of the bound methods being collected and its provider
\* evicted or cleaned up
C34_Witness ==
    /\ last.op = "iter_providers"
    /\ last.yielded # <<>>
    /\ ~hist.onlyRegs
    /\ collected
    /\ Unregistered(providers, "mP")

(***************************************************************************)
(* Cleanup and the order of what remains.                                  *)
(***************************************************************************)
\* the entries that the registration call of handle h added for one role
EntriesOfHandle(h, is_provider) ==
    LET idx == {i \in 1..Len(disposers[h]) :
                   disposers[h][i].is_provider = is_provider}
    IN  IF idx = {} THEN <<>>
        ELSE disposers[h][CHOOSE i \in idx : TRUE].to_register

\* the entries of the registration calls that were not cleaned up, in the order
\* of the calls
RECURSIVE RemainingEntries(_, _)
RemainingEntries(scopes, is_provider) ==
    IF scopes = <<>> THEN <<>>
    ELSE EntriesOfHandle(Head(scopes), is_provider)
            \o RemainingEntries(Tail(scopes), is_provider)

\* C36, as stated: after any sequence of registrations and cleanups, the
\* callbacks that remain registered for a type are yielded by descending
\* weight and, within equal weight, in the order of their own registration
\* calls.
C36_Original ==
    last.op = "iter_providers" =>
        last.yielded = DescendingFrom(RemainingEntries(hist.scopes, TRUE),
                                      last.hint.args[1], MaxWeight)

(***************************************************************************)
(* Callbacks that register and clean up while they are invoked.            *)
(***************************************************************************)
\* the providers of seq up to the first one that returns a value
UpToFirstResult(seq) ==
    LET hits == {i \in 1..Len(seq) : Ret(seq[i]) # None}
    IN  IF hits = {} THEN seq
        ELSE SubSeq(seq, 1, CHOOSE i \in hits : \A j \in hits : i <= j)

Among(callback, seq) == \E i \in 1..Len(seq) : seq[i] = callback

\* the callbacks of the entries that the held handle registered
HeldCallbacks ==
    {EntriesOfHandle(HeldHandle, TRUE)[k].callback :
        k \in 1..Len(EntriesOfHandle(HeldHandle, TRUE))}
        \cup {EntriesOfHandle(HeldHandle, FALSE)[k].callback :
                 k \in 1..Len(EntriesOfHandle(HeldHandle, FALSE))}

\* C37: when a provider or a processor registers or cleans up callbacks on the
\* store while provide or process is invoking it, the call in progress invokes
\* the callbacks that were determined when it started, in that order, and a
\* lookup that starts afterwards sees the change.
C37_Reentrant ==
    [][/\ last'.op = "provide" =>
             /\ last'.invoked =
                   UpToFirstResult(iter_type_map(last'.hint, build_map(providers)))
             /\ Among("pReg", last'.invoked) =>
                   Among("pZero", iter_type_map(last'.hint,
                                                ReadCache(provMap', providers')))
             /\ Among("pClean", last'.invoked) =>
                   \A c \in HeldCallbacks :
                       ~Among(c, iter_type_map(last'.hint,
                                               ReadCache(provMap', providers')))
       /\ last'.op = "process" =>
             /\ last'.invoked =
                   iter_type_map(Plain(TypeOf(last'.arg)), build_map(processors))
             /\ Among("qReg", last'.invoked) =>
                   Among("qB", iter_type_map(Plain(TypeOf(last'.arg)),
                                             ReadCache(procMap', processors')))
             /\ Among("qClean", last'.invoked) =>
                   \A c \in HeldCallbacks :
                       ~Among(c, iter_type_map(Plain(TypeOf(last'.arg)),
                                               ReadCache(procMap', processors')))]_vars

\* provide invoked pClean, which cleaned up the handle of pNone, and then still
\* invoked pNone, which is registered no more
C37_Witness ==
    /\ last.op = "provide"
    /\ \E i \in 1..Len(last.invoked), j \in 1..Len(last.invoked) :
          i < j /\ last.invoked[i] = "pClean" /\ last.invoked[j] = "pNone"
    /\ Unregistered(providers, "pNone")
    /\ ~provMap.built

(***************************************************************************)
(* Injected functions and the kinds of their parameters.                   *)
(***************************************************************************)
\* the call passes a value for every parameter: no parameter is left to its
\* default or to a provider, and *args and **kwargs get something
Explicit(params, args, kwargs) ==
    Bindable(params, args, kwargs) = 1..Len(params)

\* two outcomes are the same exception, or the same values of the parameters
SameOutcome(params, x, y) ==
    /\ x.raised = y.raised
    /\ x.raised = "" =>
          /\ DOMAIN x.arguments = DOMAIN y.arguments
          /\ \A i \in 1..Len(params) :
                CASE params[i].kind = "VAR_POSITIONAL" ->
                        Len(x.arguments[params[i].name])
                           = Len(y.arguments[params[i].name])
                  [] params[i].kind = "VAR_KEYWORD" ->
                        /\ DOMAIN x.arguments[params[i].name]
                              = DOMAIN y.arguments[params[i].name]
                        /\ DOMAIN x.arguments[params[i].name] \subseteq KindKeywords
                  [] OTHER ->
                        x.arguments[params[i].name] = y.arguments[params[i].name]

\* C38, as stated: an injected function that is called with a value for every
\* parameter returns what the original function returns for the same
\* arguments, or raises the same exception, whatever the kinds of its
\* parameters.
C38_Original ==
    (last.op = "call_kinds"
        /\ Explicit(KindDef(last.fn), last.supplied, last.kwargs)) =>
        SameOutcome(KindDef(last.fn), last.injected,
                    Call(KindDef(last.fn), last.supplied, last.kwargs))

(***************************************************************************)
(* The flags of type_resolved_signature.                                   *)
(***************************************************************************)
\* sig has a required parameter whose annotation cannot be resolved
UnresolvableRequired(sig) ==
    \E i \in 1..Len(sig.parameters) :
        /\ sig.parameters[i].annotation = Plain("'Unknown'")
        /\ sig.parameters[i].default = Empty

\* sig has a defaulted parameter, or a return annotation, that cannot be
\* resolved
UnresolvableOptional(sig) ==
    \/ \E i \in 1..Len(sig.parameters) :
          /\ sig.parameters[i].annotation = Plain("'Unknown'")
          /\ sig.parameters[i].default # Empty
    \/ sig.return_annotation = Plain("'Unknown'")

\* what an annotation is expected to be in the signature returned
Expected(annotation) ==
    CASE annotation = Plain("'int'") -> Plain("int")
      [] annotation = Plain(None) -> Plain(NoneType)
      [] OTHER -> annotation

\* C39, as stated: type_resolved_signature raises for an unresolvable
\* annotation of a required parameter exactly when
\* raise_unresolved_required_args is true, and for one of a defaulted parameter
\* or of the return position exactly when raise_unresolved_optional_args is
\* true; when it does not raise, what cannot be resolved is left as written
\* and everything else is resolved.
C39_Original ==
    last.op = "type_resolved_signature" =>
        /\ last.raised <=>
              \/ last.raise_required /\ UnresolvableRequired(last.sig)
              \/ last.raise_optional /\ UnresolvableOptional(last.sig)
        /\ ~last.raised =>
              /\ Len(last.resolved.parameters) = Len(last.sig.parameters)
              /\ \A i \in 1..Len(last.sig.parameters) :
                    last.resolved.parameters[i].annotation
                       = Expected(last.sig.parameters[i].annotation)
              /\ last.resolved.return_annotation
                    = Expected(last.sig.return_annotation)

(***************************************************************************)
(* Registration and lookup from several threads.                           *)
(***************************************************************************)
\* every call that another thread began has finished
Quiescent == threads = NoThreads

\* C40: when a registration on one thread has interleaved with a lookup of
\* the same role on another thread, a lookup started after both have finished
\* yields what the lists hold then, the registration included: the memoized
\* map, when there is one, is the map of the list.
C40_Original ==
    Quiescent =>
        /\ provMap.built => provMap = build_map(providers)
        /\ procMap.built => procMap = build_map(processors)
        /\ last.via # "thread" /\ last.op = "iter_providers" =>
              last.yielded = iter_type_map(last.hint, build_map(providers))
        /\ last.via # "thread" /\ last.op = "iter_processors" =>
              last.yielded = iter_type_map(last.hint, build_map(processors))

=============================================================================
